---- MODULE Spec2Model ----
(***************************************************************************)
(* CASTLR (ComputerCraft storage and crafting controller).                 *)
(*                                                                         *)
(* The model follows the library generation of the code                    *)
(* (src/lib/inventory.ts, src/storage.ts) and, where a claim is about the  *)
(* role-typed generation of Inventory, src/unnamed/part_000, or the older   *)
(* generation, src/inventory.ts and src/data.ts.                           *)
(*                                                                         *)
(* Lua tables are modelled as TLA+ functions whose DOMAIN is the set of    *)
(* keys present: a key whose value is nil is not in the DOMAIN.  A         *)
(* SlotDetail is the record [name, count]; a SlotDetail whose count field  *)
(* was set to nil is the record [name] (the table is still there).         *)
(***************************************************************************)
EXTENDS Integers, Sequences, FiniteSets, TLC

\* ---------------------------------------------------------------- bounds
NumSlots == 2       \* size() of the larger wrapped inventory
ItemLimit == 2      \* itemLimit: the stack size of a slot
MaxOccupied == 2    \* occupied slots over all inventories at construction
MaxCalls == 2       \* API calls and player changes after construction
MaxDeepCalls == 3   \* the same, where only pushItems and receiveItems are called
MaxMoves == 1       \* calls of the move operations of Storage and Data
MaxStores == 2      \* calls of moveOneToMany, where nothing else is called
MaxPer == 2         \* count of an input item in a recipe
MaxYield == 2       \* output.count of a recipe
MaxStock == 1       \* what getTotalItemCount returns for an item
MaxRequest == 2     \* count asked of gatherIngredients
MaxGatherSteps == 6 \* iterations of the loop of gatherIngredients
MaxTypeFiles == 2   \* definition files in ./types/
MaxFiles == 1       \* definition files in a directory ./recipes/<type>/
MaxAdds == 3        \* calls of _addRecipeType and _addRecipe
MaxExprLen == 5     \* characters of an expression typed
MaxIdLen == 5       \* characters of an identifier typed

Handles == {"left", "right"}
\* every inventory on the network: the Storage operations use all of them,
\* the calls made on a single Inventory are drawn from Handles
Peripherals == Handles \cup {"back"}
Items == {"a", "b"}
Slots == 1..NumSlots

\* Inventory._size, from _peripheral.size(): a chest and a smaller inventory
size(h) == IF h = "left" THEN NumSlots ELSE NumSlots - 1
MaxLimit == ItemLimit + 1
MaxDepth == NumSlots + 2

VARIABLES
    ext,        \* the peripherals: ext[h] is what _peripheral.list() returns
    list,       \* Inventory._list of every handle
    slots,      \* Inventory._slots of every handle
    pc,         \* "idle", "pushItems", "gen", "returned", "error"; the program
                \* is single-threaded, a call starts when the last one is over,
                \* and an uncaught Lua error ends the program
    op,         \* the call in progress or just returned, with its locals
    gen,        \* the coroutine made by getNextAvailableSlot
    yielded,    \* what a caller draining the coroutine got so far
    pre,        \* _list, _slots and peripherals when the call started
    calls,      \* number of API calls and player changes made
    type,       \* Inventory.type of every handle (role-typed Inventory)
    storagesByType, \* Storage._storagesByType
    sop,        \* the call of a Storage or Data operation in progress or just
                \* returned, with its locals: it calls pushItems in its loops
    gi,         \* a run of gatherIngredients: registry, stock and locals
    data        \* Data._recipeTypes and Data._recipes, the definition files
                \* they are loaded from, and the last call made on them

vars == <<ext, list, slots, pc, op, gen, yielded, pre, calls, type, storagesByType, sop, gi, data>>

\* ------------------------------------------------------------ Lua tables
EmptyMap == <<>>

RemoveKey(f, k) == [x \in DOMAIN f \ {k} |-> f[x]]

SetKey(f, k, v) == (k :> v) @@ f

Get(f, k, default) == IF k \in DOMAIN f THEN f[k] ELSE default

HasCount(detail) == "count" \in DOMAIN detail

RECURSIVE SumOver(_, _)
SumOver(f, keys) ==
    IF keys = {} THEN 0
    ELSE LET k == CHOOSE x \in keys : TRUE
         IN  f[k] + SumOver(f, keys \ {k})

Min(S) == CHOOSE x \in S : \A y \in S : x <= y

\* ------------------------------------------------------------- Inventory
\* getItemCount on the _slots map hs of one handle
ItemCountIn(hs, name) ==
    IF name \notin DOMAIN hs THEN 0
    ELSE SumOver(hs[name], DOMAIN hs[name])

getItemCount(h, name) == ItemCountIn(slots[h], name)

getSlot(h, slot) == Get(list[h], slot, EmptyMap)

IsUndefined(h, slot) == slot \notin DOMAIN list[h]

\* variant for comparison: every item is booked at every occupied slot
SyncedSlotsUngrouped(listing) ==
    [n \in {listing[s].name : s \in DOMAIN listing} |->
        [s \in DOMAIN listing |-> listing[s].count]]

\* syncData: both structures rebuilt from _peripheral.list()
SyncedSlots(listing) ==
    [n \in {listing[s].name : s \in DOMAIN listing} |->
        [s \in {t \in DOMAIN listing : listing[t].name = n} |-> listing[s].count]]

\* variant for comparison: the amount received replaces what the slot held
receiveItemsOverwrite(hs, hl, name, slot, count) ==
    LET currentSlots == Get(hs, name, EmptyMap)
    IN  [slots |-> SetKey(hs, name, SetKey(currentSlots, slot, count)),
         list  |-> IF slot \notin DOMAIN hl
                   THEN SetKey(hl, slot, [name |-> name, count |-> count])
                   ELSE [hl EXCEPT ![slot] = [name |-> @.name, count |-> count]]]

\* variant for comparison: an amount of 0 is not booked
receiveItemsIfAny(hs, hl, name, slot, count) ==
    IF count = 0 THEN [slots |-> hs, list |-> hl]
    ELSE LET currentSlots == Get(hs, name, EmptyMap)
             newAmount == Get(currentSlots, slot, 0) + count
         IN  [slots |-> SetKey(hs, name, SetKey(currentSlots, slot, newAmount)),
              list  |-> IF slot \notin DOMAIN hl
                        THEN SetKey(hl, slot, [name |-> name, count |-> count])
                        ELSE [hl EXCEPT ![slot] = [name |-> @.name, count |-> newAmount]]]

\* receiveItems on one handle's pair of structures
receiveItems(hs, hl, name, slot, count) ==
    LET currentSlots == Get(hs, name, EmptyMap)
        newAmount == Get(currentSlots, slot, 0) + count
    IN  [slots |-> SetKey(hs, name, SetKey(currentSlots, slot, newAmount)),
         list  |-> IF slot \notin DOMAIN hl
                   THEN SetKey(hl, slot, [name |-> name, count |-> count])
                   ELSE [hl EXCEPT ![slot] = [name |-> @.name, count |-> newAmount]]]

\* getFreeSlotCount: size() less the keys of _list
getFreeSlotCount(h) == size(h) - Cardinality(DOMAIN list[h])

\* --------------------------------------------- getNextAvailableSlot
\* The coroutine is a chain of frames, each suspended in the frame it
\* delegates to (line 188); when the innermost frame returns nil every
\* frame above it returns as well (line 189), so the chain is its innermost
\* frame and its length.  sc is "slotCounts !== undefined" of that frame,
\* visited the keys its pairs() loop has passed.
NewGenerator(h, name) ==
    [h |-> h, name |-> name, phase |-> "start", sc |-> FALSE, visited |-> {}, depth |-> 0]

NewFrame(g) ==
    [g EXCEPT !.phase = "partial", !.sc = (g.name \in DOMAIN slots[g.h]),
              !.visited = {}, !.depth = @ + 1]

PartialKeys(g) ==
    IF g.sc /\ g.name \in DOMAIN slots[g.h]
    THEN {s \in DOMAIN slots[g.h][g.name] \ g.visited : slots[g.h][g.name][s] < ItemLimit}
    ELSE {}

UndefinedSlots(h) == {i \in 1..size(h) : IsUndefined(h, i)}

\* one resume of a live frame: the set of [gen, value] it may produce
\* (pairs() leaves the order of the keys open); value 0 stands for nil
RunFrame(g) ==
    IF PartialKeys(g) # {}
    THEN {[gen |-> [g EXCEPT !.visited = @ \cup {s}], value |-> s] : s \in PartialKeys(g)}
    ELSE IF UndefinedSlots(g.h) # {}
    THEN {[gen |-> [g EXCEPT !.phase = "delegate"], value |-> Min(UndefinedSlots(g.h))]}
    ELSE {[gen |-> [g EXCEPT !.phase = "dead"], value |-> 0]}

Resume(g) == IF g.phase \in {"start", "delegate"} THEN RunFrame(NewFrame(g)) ELSE RunFrame(g)

\* ------------------------------------------------------ the peripheral
\* _peripheral.pushItems(toName, fromSlot, limit, toSlot): what the game
\* moves, on the inventories e
RoomIn(e, to, toSlot, name) ==
    IF toSlot \notin DOMAIN e[to] THEN ItemLimit
    ELSE IF e[to][toSlot].name = name THEN ItemLimit - e[to][toSlot].count
    ELSE 0

AmountIn(e, from, to, fromSlot, limit, toSlot) ==
    IF fromSlot \notin DOMAIN e[from] \/ limit <= 0 THEN 0
    ELSE LET have == e[from][fromSlot].count
             room == RoomIn(e, to, toSlot, e[from][fromSlot].name)
         IN  Min({limit, have, room})

AfterIn(e, from, to, fromSlot, toSlot, amount) ==
    IF amount = 0 THEN e
    ELSE LET item == e[from][fromSlot]
             src == IF item.count = amount THEN RemoveKey(e[from], fromSlot)
                    ELSE [e[from] EXCEPT ![fromSlot].count = @ - amount]
             dst == SetKey(e[to], toSlot,
                           [name |-> item.name,
                            count |-> amount + (IF toSlot \in DOMAIN e[to]
                                                THEN e[to][toSlot].count ELSE 0)])
         IN  [e EXCEPT ![from] = src, ![to] = dst]

\* the same on the inventories as they are now
ExtRoom(to, toSlot, name) == RoomIn(ext, to, toSlot, name)

ExtAmount(from, to, fromSlot, limit, toSlot) == AmountIn(ext, from, to, fromSlot, limit, toSlot)

ExtAfter(from, to, fromSlot, toSlot, amount) == AfterIn(ext, from, to, fromSlot, toSlot, amount)

\* parallel.waitForAll(...moveQueue): the queued peripheral calls, which the
\* computer runs in the order they were queued
RECURSIVE RunQueue(_, _, _, _, _)
RunQueue(e, from, to, fromSlot, queue) ==
    IF queue = <<>> THEN e
    ELSE LET m == Head(queue)
             amount == AmountIn(e, from, to, fromSlot, m.limit, m.toSlot)
         IN  RunQueue(AfterIn(e, from, to, fromSlot, m.toSlot, amount),
                      from, to, fromSlot, Tail(queue))

\* ----------------------------------------------------------------- roles
\* settings name two chests; "top" is a side with no inventory attached
Locations == Handles \cup {"top"}

SettingsChoices == [inputChest : {"left"}, outputChest : {"right", "top"}]

\* settings.inputChest ?? "left", settings.outputChest ?? "right"
DefaultSettings == [inputChest |-> "left", outputChest |-> "right"]

\* Data.init: the four sets handed to new Storage(...)
DataInit(settings, recipeTypes, peripherals) ==
    LET inputs == {settings.outputChest} \cup {t.input : t \in recipeTypes}
        outputs == {settings.inputChest} \cup {t.output : t \in recipeTypes}
    IN  [Input |-> inputs,
         Output |-> outputs,
         Storage |-> {n \in peripherals : n \notin inputs /\ n \notin outputs},
         NotInput |-> {n \in peripherals : n \notin inputs}]

\* the sType given to new Inventory(name, sType)
StorageTypeOf(name, inputs, outputs) ==
    IF name \in inputs THEN "Input"
    ELSE IF name \in outputs THEN "Output"
    ELSE "Storage"

\* variant for comparison: the role is not looked at
getItemCountAnyType(h, name) == ItemCountIn(slots[h], name)

\* getItemCount of the role-typed Inventory
getItemCountByType(h, name) ==
    IF type[h] = "Input" THEN 0
    ELSE ItemCountIn(slots[h], name)

\* Storage.getStoragesByType, Storage.getTotalItemCount
getStoragesByType(sType) == storagesByType[sType]

RECURSIVE TotalOver(_, _)
TotalOver(names, item) ==
    IF names = {} THEN 0
    ELSE LET name == CHOOSE n \in names : TRUE
         IN  getItemCount(name, item) + TotalOver(names \ {name}, item)

\* variant for comparison: every inventory is counted
getTotalItemCountAll(item) == TotalOver(Peripherals, item)

getTotalItemCount(item) == TotalOver(getStoragesByType("NotInput"), item)

\* ------------------------------------------- Data: types and recipes
TypeIDs == {"castlr:mill", "castlr:press"}

\* where a machine takes its inputs from and leaves its product
TypeLocations == {"right", "back"}

\* a RecipeType and a Recipe as their definition files give them
RecipeTypes == [typeID : TypeIDs, input : TypeLocations, output : TypeLocations]

Recipes ==
    [typeID : TypeIDs, input : {<<[name |-> "ingot", count |-> 1]>>},
     output : {[name |-> n, count |-> 1] : n \in {"gear", "plate"}}]

SeqsUpTo(S, n) == UNION {[1..k -> S] : k \in 0..n}

\* the files of ./types/ and of the directories ./recipes/<type>/
TypeFiles == SeqsUpTo(RecipeTypes, MaxTypeFiles)

RecipeFiles == [TypeIDs -> SeqsUpTo(Recipes, MaxFiles)]

\* Data with nothing loaded, over the definition files given
DataOver(typeFiles, recipeFiles) ==
    [typeFiles |-> typeFiles, recipeFiles |-> recipeFiles,
     recipeTypes |-> {}, recipes |-> {}, printed |-> <<>>, last |-> [name |-> "none"]]

NoFiles == DataOver(<<>>, [id \in TypeIDs |-> <<>>])

\* variant for comparison: the type of the recipe is not looked up
addRecipeAnyType(d, recipe) ==
    IF \E existingRecipe \in d.recipes : recipe.output.name = existingRecipe.output.name
    THEN [d EXCEPT !.printed = Append(@, "Recipes with outputs matching another are not allowed.")]
    ELSE [d EXCEPT !.recipes = @ \cup {recipe}]

\* _addRecipe(recipe) on the sets d
addRecipe(d, recipe) ==
    IF ~\E existingType \in d.recipeTypes : recipe.typeID = existingType.typeID
    THEN [d EXCEPT !.printed =
             Append(@, "Recipe type must be declared before adding a recipe using it.")]
    ELSE IF \E existingRecipe \in d.recipes : recipe.output.name = existingRecipe.output.name
    THEN [d EXCEPT !.printed = Append(@, "Recipes with outputs matching another are not allowed.")]
    ELSE [d EXCEPT !.recipes = @ \cup {recipe}]

\* _loadRecipesFromDirectory: _addRecipe for every file, in fs.list order
RECURSIVE loadRecipesFromDirectory(_, _)
loadRecipesFromDirectory(d, files) ==
    IF files = <<>> THEN d
    ELSE loadRecipesFromDirectory(addRecipe(d, Head(files)), Tail(files))

\* _addRecipeType(recipeType) on the sets d
addRecipeType(d, recipeType) ==
    IF \E existingType \in d.recipeTypes : existingType.typeID = recipeType.typeID
    THEN [d EXCEPT !.printed =
             Append(@, "Recipe types with types matching another are not allowed.")]
    ELSE loadRecipesFromDirectory([d EXCEPT !.recipeTypes = @ \cup {recipeType}],
                                  d.recipeFiles[recipeType.typeID])

RECURSIVE addRecipeTypes(_, _)
addRecipeTypes(d, files) ==
    IF files = <<>> THEN d
    ELSE addRecipeTypes(addRecipeType(d, Head(files)), Tail(files))

\* loadRecipeTypesFromDirectory("./types/"): both sets are made anew
loadRecipeTypesFromDirectory(d) ==
    addRecipeTypes([d EXCEPT !.recipeTypes = {}, !.recipes = {}], d.typeFiles)

\* ------------------------------------------------------------- states
Details == {[name |-> n, count |-> c] : n \in Items, c \in 1..ItemLimit}

Listings(h) == UNION {[D -> Details] : D \in SUBSET (1..size(h))}

Occupied(e) == SumOver([h \in Peripherals |-> Cardinality(DOMAIN e[h])], Peripherals)

NoCall == [name |-> "none"]

Snapshot == [list |-> list, slots |-> slots, ext |-> ext]

\* what the inventories may hold when the program starts
Contents ==
    {e \in [Peripherals -> UNION {Listings(h) : h \in Peripherals}] :
        /\ \A h \in Peripherals : e[h] \in Listings(h)
        /\ Occupied(e) <= MaxOccupied}

\* the state after construction over the inventories e: every Inventory
\* has run syncData, Data.init has set the roles from the settings and the
\* recipe types loaded
WrappedWith(e, st, recipeTypes) ==
    /\ ext = e
    /\ list = e
    /\ slots = [h \in Peripherals |-> SyncedSlots(e[h])]
    /\ pc = "idle"
    /\ op = NoCall
    /\ gen = NewGenerator("left", "a")
    /\ yielded = <<>>
    /\ pre = [list |-> e, slots |-> [h \in Peripherals |-> SyncedSlots(e[h])], ext |-> e]
    /\ calls = 0
    /\ LET sets == DataInit(st, recipeTypes, Peripherals)
       IN  /\ storagesByType = sets
           /\ type = [h \in Peripherals |-> StorageTypeOf(h, sets.Input, sets.Output)]

\* the same where ./types/ is empty
Wrapped(e, st) == WrappedWith(e, st, {})

Constructed(e) ==
    (\E st \in SettingsChoices : Wrapped(e, st)) /\ sop = NoCall /\ gi = NoCall /\ data = NoFiles

\* the third inventory starts empty where only two are addressed
Init == \E e \in Contents : e["back"] = EmptyMap /\ Constructed(e)

InitStorage == \E e \in Contents : Constructed(e)

\* a Storage or Data operation is in one of its loops
Running == IF sop.name = "none" THEN FALSE ELSE sop.running

Ready == pc \in {"idle", "returned"} /\ ~Running

\* a player puts something into a slot of the real inventory or empties it
Tamper(h, s) ==
    /\ Ready
    /\ \E l \in {SetKey(ext[h], s, d) : d \in Details} \cup {RemoveKey(ext[h], s)} :
          /\ l # ext[h]
          /\ ext' = [ext EXCEPT ![h] = l]
    /\ pc' = "idle"
    /\ op' = NoCall
    /\ gen' = NewGenerator("left", "a")
    /\ yielded' = <<>>
    /\ pre' = [list |-> list, slots |-> slots, ext |-> ext']
    /\ calls' = calls + 1
    /\ UNCHANGED <<list, slots, type, storagesByType, sop, gi, data>>

syncData(h) ==
    /\ Ready
    /\ list' = [list EXCEPT ![h] = ext[h]]
    /\ slots' = [slots EXCEPT ![h] = SyncedSlots(ext[h])]
    /\ pc' = "returned"
    /\ op' = [name |-> "syncData", h |-> h]
    /\ pre' = Snapshot
    /\ calls' = calls + 1
    /\ UNCHANGED <<ext, gen, yielded, type, storagesByType, sop, gi, data>>

AcceptsItem(h, name, slot) ==
    IF IsUndefined(h, slot) THEN TRUE
    ELSE IF ~HasCount(list[h][slot]) THEN TRUE
    ELSE list[h][slot].name = name

\* receiveItems called by the program after an insertion it knows of; the
\* slot is, as far as the cache tells, free or holding the same item
ReceiveItems(h, name, slot, count) ==
    /\ Ready
    /\ AcceptsItem(h, name, slot)
    /\ LET r == receiveItems(slots[h], list[h], name, slot, count)
       IN  /\ slots' = [slots EXCEPT ![h] = r.slots]
           /\ list' = [list EXCEPT ![h] = r.list]
    /\ pc' = "returned"
    /\ op' = [name |-> "receiveItems", h |-> h, item |-> name, slot |-> slot, count |-> count]
    /\ pre' = Snapshot
    /\ calls' = calls + 1
    /\ UNCHANGED <<ext, gen, yielded, type, storagesByType, sop, gi, data>>

\* while (totalMoved < limit && itemToMove.count !== undefined)
LoopCondition(totalMoved, limit, itemToMove) == totalMoved < limit /\ HasCount(itemToMove)

\* variant for comparison: a missing limit becomes 0
LimitOfNoDefault(hasLimit, limitArg, itemToMove) ==
    IF hasLimit THEN limitArg ELSE 0

\* limit = limit ?? (itemToMove.count ?? 0)
LimitOf(hasLimit, limitArg, itemToMove) ==
    IF hasLimit THEN limitArg
    ELSE IF HasCount(itemToMove) THEN itemToMove.count ELSE 0

\* pushItems up to the loop: itemToMove, limit, totalMoved, slotGenerator.
\* Where _list[fromSlot] is nil, itemToMove.count (line 256) or, with a limit
\* given, itemToMove.name (line 258) indexes nil: Lua raises an error.
PushBegin(src, dst, fromSlot, hasLimit, limitArg) ==
    /\ IF fromSlot \notin DOMAIN list[src]
       THEN /\ op' = [name |-> "pushItems", src |-> src, dst |-> dst, fromSlot |-> fromSlot,
                      hasLimit |-> hasLimit, limitArg |-> IF hasLimit THEN limitArg ELSE 0,
                      item |-> "nil", limit |-> 0, totalMoved |-> 0]
            /\ pc' = "error"
            /\ gen' = gen
       ELSE LET itemToMove == list[src][fromSlot]
                limit == LimitOf(hasLimit, limitArg, itemToMove)
            IN  /\ op' = [name |-> "pushItems", src |-> src, dst |-> dst, fromSlot |-> fromSlot,
                          hasLimit |-> hasLimit, limitArg |-> IF hasLimit THEN limitArg ELSE 0,
                          item |-> itemToMove.name, limit |-> limit, totalMoved |-> 0]
                /\ pc' = IF LoopCondition(0, limit, itemToMove) THEN "pushItems" ELSE "returned"
                /\ gen' = NewGenerator(dst, itemToMove.name)
    /\ pre' = Snapshot

\* pushItems called on its own
PushCall(src, dst, fromSlot, hasLimit, limitArg) ==
    /\ Ready
    /\ src # dst
    /\ PushBegin(src, dst, fromSlot, hasLimit, limitArg)
    /\ calls' = calls + 1
    /\ UNCHANGED <<ext, list, slots, yielded, type, storagesByType, sop, gi, data>>

\* variant for comparison: the role of the source is not looked at
PushCallAnyType(src, dst, fromSlot, hasLimit, limitArg) ==
    PushCall(src, dst, fromSlot, hasLimit, limitArg)

\* pushItems of the role-typed Inventory: on an Input handle it prints
\* "Error: attempting to push items from an input storage" and returns nil
PushCallByType(src, dst, fromSlot, hasLimit, limitArg) ==
    IF type[src] = "Input"
    THEN /\ Ready
         /\ src # dst
         /\ op' = [name |-> "pushItemsByType", src |-> src, dst |-> dst, fromSlot |-> fromSlot,
                   printed |-> "Error: attempting to push items from an input storage",
                   returned |-> "nil"]
         /\ pc' = "returned"
         /\ pre' = Snapshot
         /\ calls' = calls + 1
         /\ UNCHANGED <<ext, list, slots, gen, yielded, type, storagesByType, sop, gi, data>>
    ELSE PushCall(src, dst, fromSlot, hasLimit, limitArg)

\* one iteration of the loop and the evaluation of the condition after it;
\* at "returned" op.totalMoved is the value returned
PushStep ==
    /\ pc = "pushItems"
    /\ \E o \in Resume(gen) :
          /\ gen' = o.gen
          /\ IF o.value = 0
             THEN /\ pc' = "returned"
                  /\ UNCHANGED <<ext, list, slots, op>>
             ELSE LET itemToMove == list[op.src][op.fromSlot]
                      nextSlot == o.value
                      amountMoved == ExtAmount(op.src, op.dst, op.fromSlot,
                                               op.limit - op.totalMoved, nextSlot)
                      srcSlots == slots[op.src][itemToMove.name]
                      newSrcSlots ==
                          IF itemToMove.count # amountMoved
                          THEN SetKey(srcSlots, op.fromSlot, itemToMove.count - amountMoved)
                          ELSE RemoveKey(srcSlots, op.fromSlot)
                      newItem ==
                          IF itemToMove.count # amountMoved
                          THEN [itemToMove EXCEPT !.count = @ - amountMoved]
                          ELSE [name |-> itemToMove.name]
                      r == receiveItems(slots[op.dst], list[op.dst],
                                        itemToMove.name, nextSlot, amountMoved)
                  IN  /\ ext' = ExtAfter(op.src, op.dst, op.fromSlot, nextSlot, amountMoved)
                      /\ op' = [op EXCEPT !.totalMoved = @ + amountMoved]
                      /\ slots' = [slots EXCEPT
                                      ![op.src] = [@ EXCEPT ![itemToMove.name] = newSrcSlots],
                                      ![op.dst] = r.slots]
                      /\ list' = [list EXCEPT
                                      ![op.src] = [@ EXCEPT ![op.fromSlot] = newItem],
                                      ![op.dst] = r.list]
                      /\ pc' = IF LoopCondition(op.totalMoved + amountMoved, op.limit, newItem)
                               THEN "pushItems" ELSE "returned"
    /\ UNCHANGED <<yielded, pre, calls, type, storagesByType, sop, gi, data>>

\* pushItems of the older Inventory (src/inventory.ts) up to the loop; an
\* Input handle prints the error and returns nil
PushBeginQueued(src, dst, fromSlot, limitArg) ==
    /\ IF type[src] = "Input"
       THEN /\ op' = [name |-> "pushItemsQueued", src |-> src, dst |-> dst, fromSlot |-> fromSlot,
                      item |-> "nil", limit |-> limitArg, totalMoved |-> 0,
                      moveQueue |-> <<>>, returned |-> "nil"]
            /\ pc' = "returned"
            /\ gen' = gen
       ELSE IF fromSlot \notin DOMAIN list[src]
       THEN /\ op' = [name |-> "pushItemsQueued", src |-> src, dst |-> dst, fromSlot |-> fromSlot,
                      item |-> "nil", limit |-> limitArg, totalMoved |-> 0,
                      moveQueue |-> <<>>, returned |-> "nil"]
            /\ pc' = "error"
            /\ gen' = gen
       ELSE LET itemToMove == list[src][fromSlot]
            IN  /\ op' = [name |-> "pushItemsQueued", src |-> src, dst |-> dst,
                          fromSlot |-> fromSlot, item |-> itemToMove.name, limit |-> limitArg,
                          totalMoved |-> 0, moveQueue |-> <<>>, returned |-> "totalMoved"]
                /\ pc' = IF LoopCondition(0, limitArg, itemToMove)
                         THEN "pushItemsQueued" ELSE "returned"
                /\ gen' = NewGenerator(dst, itemToMove.name)
    /\ pre' = Snapshot

\* one iteration of its loop: the amount is worked out from the caches and
\* booked, the peripheral call is queued; the queue is run after the loop,
\* but not where the generator is done (line 107 returns at once).  The
\* queue is also run where it holds 224 calls, more than the slots here.
PushStepQueued ==
    /\ pc = "pushItemsQueued"
    /\ \E o \in Resume(gen) :
          /\ gen' = o.gen
          /\ IF o.value = 0
             THEN /\ pc' = "returned"
                  /\ UNCHANGED <<ext, list, slots, op>>
             ELSE LET fromSlotItem == list[op.src][op.fromSlot]
                      toSlot == o.value
                      toDefined == toSlot \in DOMAIN list[op.dst]
                  IN  IF toDefined /\ ~HasCount(Get(list[op.dst], toSlot, [name |-> "nil"]))
                      THEN \* toSlotItem.count is nil: arithmetic on nil
                           /\ pc' = "error"
                           /\ UNCHANGED <<ext, list, slots, op>>
                      ELSE
                      LET toCount == IF toDefined THEN list[op.dst][toSlot].count ELSE 0
                          over == toCount + fromSlotItem.count - ItemLimit
                          amountMoved == fromSlotItem.count - (IF over > 0 THEN over ELSE 0)
                          amountInCurrentMove == op.limit - op.totalMoved
                          queue == Append(op.moveQueue,
                                          [limit |-> amountInCurrentMove, toSlot |-> toSlot])
                          srcSlots == slots[op.src][fromSlotItem.name]
                          newSrcSlots ==
                              IF fromSlotItem.count # amountMoved
                              THEN SetKey(srcSlots, op.fromSlot, fromSlotItem.count - amountMoved)
                              ELSE RemoveKey(srcSlots, op.fromSlot)
                          newItem ==
                              IF fromSlotItem.count # amountMoved
                              THEN [fromSlotItem EXCEPT !.count = @ - amountMoved]
                              ELSE [name |-> fromSlotItem.name]
                          r == receiveItems(slots[op.dst], list[op.dst],
                                            fromSlotItem.name, toSlot, amountMoved)
                          again == LoopCondition(op.totalMoved + amountMoved, op.limit, newItem)
                      IN  /\ slots' = [slots EXCEPT
                                          ![op.src] = [@ EXCEPT ![fromSlotItem.name] = newSrcSlots],
                                          ![op.dst] = r.slots]
                          /\ list' = [list EXCEPT
                                          ![op.src] = [@ EXCEPT ![op.fromSlot] = newItem],
                                          ![op.dst] = r.list]
                          /\ IF again
                             THEN /\ pc' = "pushItemsQueued"
                                  /\ ext' = ext
                                  /\ op' = [op EXCEPT !.totalMoved = @ + amountMoved,
                                                       !.moveQueue = queue]
                             ELSE /\ pc' = "returned"
                                  /\ ext' = RunQueue(ext, op.src, op.dst, op.fromSlot, queue)
                                  /\ op' = [op EXCEPT !.totalMoved = @ + amountMoved,
                                                       !.moveQueue = <<>>]
    /\ UNCHANGED <<yielded, pre, calls, type, storagesByType, sop, gi, data>>

\* a caller takes the coroutine of getNextAvailableSlot and drains it,
\* touching nothing in between
GenCall(h, name) ==
    /\ Ready
    /\ gen' = NewGenerator(h, name)
    /\ yielded' = <<>>
    /\ pc' = "gen"
    /\ op' = [name |-> "getNextAvailableSlot", h |-> h, item |-> name]
    /\ pre' = Snapshot
    /\ calls' = calls + 1
    /\ UNCHANGED <<ext, list, slots, type, storagesByType, sop, gi, data>>

GenNext ==
    /\ pc = "gen"
    /\ gen.depth < MaxDepth
    /\ \E o \in Resume(gen) :
          /\ gen' = o.gen
          /\ IF o.value = 0
             THEN pc' = "returned" /\ yielded' = yielded
             ELSE pc' = "gen" /\ yielded' = Append(yielded, o.value)
    /\ UNCHANGED <<ext, list, slots, op, pre, calls, type, storagesByType, sop, gi, data>>

\* ------------------------------------------- Storage and Data: moving
\* The locals of a move operation: the handles its outer loop has still to
\* take (a LuaSet, in no fixed order), the handle it is at, the keys its
\* inner pairs() loop has passed, and what it got at its return.
NewSop(name, impl, from, to, item, limit, outer) ==
    [name |-> name, impl |-> impl, from |-> from, to |-> to, item |-> item,
     startingLimit |-> limit, limit |-> limit, amountMoved |-> 0,
     outer |-> outer, cur |-> "none", visited |-> {},
     running |-> TRUE, result |-> "none", value |-> 0, start |-> Snapshot]

TheOne(S) == CHOOSE h \in S : TRUE

\* moveItemFromOne(from, to, name, limit) of Storage and of Data
MoveItemFromOneCall(impl, from, to, name, limit) ==
    /\ Ready
    /\ from \notin to
    /\ to # {}
    /\ LET new == NewSop("moveItemFromOne", impl, {from}, to, name, limit, to)
       IN  IF name \notin DOMAIN slots[from]
           THEN /\ sop' = [new EXCEPT !.running = FALSE, !.result = "false"]
                /\ pc' = "returned"
           ELSE /\ sop' = new
                /\ pc' = "storage"
    /\ calls' = calls + 1
    /\ UNCHANGED <<ext, list, slots, op, gen, yielded, pre, type, storagesByType, gi, data>>

\* Storage.moveItemFromMany(from, to, name, limit)
MoveItemFromManyCall(from, to, name, limit) ==
    /\ Ready
    /\ to \notin from
    /\ from # {}
    /\ sop' = NewSop("moveItemFromMany", "Storage", from, {to}, name, limit, from)
    /\ pc' = "storage"
    /\ calls' = calls + 1
    /\ UNCHANGED <<ext, list, slots, op, gen, yielded, pre, type, storagesByType, gi, data>>

\* Storage.moveOneToMany(from, to)
MoveOneToManyCall(from, to) ==
    /\ Ready
    /\ from \notin to
    /\ to # {}
    /\ sop' = NewSop("moveOneToMany", "Storage", {from}, to, "nil", 0, to)
    /\ pc' = "storage"
    /\ calls' = calls + 1
    /\ UNCHANGED <<ext, list, slots, op, gen, yielded, pre, type, storagesByType, gi, data>>

\* source and destination of the pushItems calls of the inner loop
SopSrc == IF sop.name = "moveItemFromMany" THEN sop.cur ELSE TheOne(sop.from)

SopDst == IF sop.name = "moveItemFromMany" THEN TheOne(sop.to) ELSE sop.cur

\* the keys the inner loop has still to pass: of srcSlots / slotCounts, or
\* of srcInv.list() in moveOneToMany, as the table is now
SopKeys ==
    IF sop.cur = "none" THEN {}
    ELSE IF sop.name = "moveOneToMany" THEN DOMAIN list[SopSrc] \ sop.visited
    ELSE IF sop.item \in DOMAIN slots[SopSrc] THEN DOMAIN slots[SopSrc][sop.item] \ sop.visited
    ELSE {}

\* variant for comparison: the limit asked for is returned
ManyMovedAsked(startingLimit, limit) == startingLimit

\* return startingLimit - limit
ManyMoved(startingLimit, limit) == startingLimit - limit

\* variant for comparison: the limit is never seen as reached
LimitReachedNever(limit) == FALSE

\* if (limit === 0) return true
LimitReached(limit) == limit = 0

\* what the operation returns when its loops are over
SopFallThrough ==
    IF sop.name = "moveItemFromOne" THEN [sop EXCEPT !.running = FALSE, !.result = "false"]
    ELSE IF sop.name = "moveItemFromMany"
    THEN [sop EXCEPT !.running = FALSE, !.result = "number",
                     !.value = ManyMoved(sop.startingLimit, sop.limit)]
    ELSE [sop EXCEPT !.running = FALSE, !.result = "nil"]

\* the loops of a move operation up to its next pushItems call or its end
StorageStep ==
    /\ pc = "storage"
    /\ IF SopKeys # {}
       THEN \E fromSlot \in SopKeys :
               /\ sop' = [sop EXCEPT !.visited = @ \cup {fromSlot}]
               /\ IF sop.impl = "Data"
                  THEN PushBeginQueued(SopSrc, SopDst, fromSlot, sop.limit)
                  ELSE PushBegin(SopSrc, SopDst, fromSlot,
                                 sop.name # "moveOneToMany", sop.limit)
       ELSE IF sop.outer # {}
       THEN \E h \in sop.outer :
               /\ sop' = [sop EXCEPT !.cur = h, !.outer = @ \ {h}, !.visited = {}]
               /\ UNCHANGED <<pc, op, gen, pre>>
       ELSE /\ sop' = SopFallThrough
            /\ pc' = "returned"
            /\ UNCHANGED <<op, gen, pre>>
    /\ UNCHANGED <<ext, list, slots, yielded, calls, type, storagesByType, gi, data>>

\* what a move operation does with the value pushItems returned
StorageResume ==
    /\ pc = "returned"
    /\ Running
    /\ IF sop.name = "moveOneToMany"
       THEN sop' = sop /\ pc' = "storage"
       ELSE IF sop.name = "moveItemFromMany"
       THEN LET limit == sop.limit - op.totalMoved
            IN  IF limit <= 0
                THEN /\ sop' = [sop EXCEPT !.limit = limit, !.running = FALSE,
                                           !.result = "number", !.value = sop.startingLimit]
                     /\ pc' = "returned"
                ELSE /\ sop' = [sop EXCEPT !.limit = limit]
                     /\ pc' = "storage"
       ELSE IF sop.impl = "Storage"
       THEN LET limit == sop.limit - op.totalMoved
            IN  IF LimitReached(limit)
                THEN /\ sop' = [sop EXCEPT !.limit = limit, !.running = FALSE, !.result = "true"]
                     /\ pc' = "returned"
                ELSE /\ sop' = [sop EXCEPT !.limit = limit]
                     /\ pc' = "storage"
       ELSE IF op.returned = "nil"
       THEN \* amountMoved += nil
            sop' = sop /\ pc' = "error"
       ELSE LET amountMoved == sop.amountMoved + op.totalMoved
            IN  IF amountMoved = sop.limit
                THEN /\ sop' = [sop EXCEPT !.amountMoved = amountMoved, !.running = FALSE,
                                           !.result = "true"]
                     /\ pc' = "returned"
                ELSE /\ sop' = [sop EXCEPT !.amountMoved = amountMoved]
                     /\ pc' = "storage"
    /\ UNCHANGED <<ext, list, slots, op, gen, yielded, pre, calls, type, storagesByType, gi, data>>

MoveItemFromOne ==
    \E impl \in {"Storage", "Data"}, from \in Peripherals, name \in Items, limit \in 1..MaxLimit :
        \E to \in SUBSET (Peripherals \ {from}) : MoveItemFromOneCall(impl, from, to, name, limit)

MoveItemFromMany ==
    \E to \in Peripherals, name \in Items, limit \in 1..MaxLimit :
        \E from \in SUBSET (Peripherals \ {to}) : MoveItemFromManyCall(from, to, name, limit)

MoveOneToMany ==
    \E from \in Peripherals :
        \E to \in SUBSET (Peripherals \ {from}) : MoveOneToManyCall(from, to)

\* ------------------------------------------------ gatherIngredients
\* The items of the recipes: a machine is made of plates and gears, a gear
\* of plates, a plate of ingots (or, wrongly set up, of machines).
GItems == {"machine", "gear", "plate", "ingot"}

SlotDetails(names) == {[name |-> n, count |-> c] : n \in names, c \in 1..MaxPer}

\* the input lists a recipe for the item may have
RecipeInputs(item) ==
    IF item = "machine"
    THEN {<<d>> : d \in SlotDetails({"plate", "gear"})}
         \cup {<<d, e>> : d \in SlotDetails({"plate"}), e \in SlotDetails({"gear"})}
         \cup {<<e, d>> : d \in SlotDetails({"plate"}), e \in SlotDetails({"gear"})}
    ELSE IF item = "gear" THEN {<<d>> : d \in SlotDetails({"plate"})}
    ELSE IF item = "plate" THEN {<<d>> : d \in SlotDetails({"ingot", "machine"})}
    ELSE {}

\* a Recipe as read from its file: no count field yet
RecipesFor(item) ==
    {[input |-> i, output |-> [name |-> item, count |-> k]] :
        i \in RecipeInputs(item), k \in 1..MaxYield}

\* Data._recipes: at most one recipe per output item (_addRecipe)
Registries ==
    UNION {{f \in [D -> UNION {RecipesFor(n) : n \in D}] : \A n \in D : f[n] \in RecipesFor(n)} :
              D \in SUBSET {"machine", "gear", "plate"}}

Stocks == [GItems -> 0..MaxStock]

\* getRecipe(itemOutput) !== undefined
HasRecipe(recipes, item) == item \in DOMAIN recipes

\* recipeToUse.count = value, on the table kept in the registry
WithCount(recipe, value) ==
    [k \in DOMAIN recipe \cup {"count"} |-> IF k = "count" THEN value ELSE recipe[k]]

\* variant for comparison: the quotient is rounded down
CeilRoundedDown(n, k) == n \div k

\* math.ceil(n / k)
Ceil(n, k) == IF n % k = 0 THEN n \div k ELSE (n \div k) + 1

\* variant for comparison: what is in stock is not looked at
CraftAmountNoStock(count, totalCount, currentUsage) == count

\* variant for comparison: what a recipe was already added for is forgotten
CraftAmountNoUsage(count, totalCount, currentUsage) == count - totalCount

\* craftAmount = currentOutput.count - (totalCount - currentUsage)
CraftAmount(count, totalCount, currentUsage) == count - (totalCount - currentUsage)

\* variant for comparison: an exact fit is crafted as well
NeedsCraftOrEqual(craftAmount) == craftAmount >= 0

\* if (craftAmount > 0)
NeedsCraft(craftAmount) == craftAmount > 0

\* variant for comparison: every input is pushed twice
ScaledTwice(input, multiplier) ==
    IF input = <<>> THEN <<>>
    ELSE [i \in 1..(2 * Len(input)) |->
            [name |-> input[(i + 1) \div 2].name,
             count |-> input[(i + 1) \div 2].count * multiplier]]

\* the SlotDetails pushed for the inputs of a recipe, in input order
RECURSIVE Scaled(_, _)
Scaled(input, multiplier) ==
    IF input = <<>> THEN <<>>
    ELSE <<[name |-> Head(input).name, count |-> Head(input).count * multiplier]>>
            \o Scaled(Tail(input), multiplier)

\* the state of Data before gatherIngredients is called
GatherIdle(recipes, stock) == [name |-> "none", recipes |-> recipes, stock |-> stock]

\* gatherIngredients(name, count) up to its loop.  recipeStack holds the
\* tables of the registry, here their output names; encounters and demanded
\* record what the loop worked out at each iteration.
GatherCall(name, count) ==
    /\ gi.name = "none"
    /\ gi' = [name |-> "gatherIngredients", recipes |-> gi.recipes, stock |-> gi.stock,
              item |-> name, count |-> count, phase |-> "loop",
              itemsToGather |-> <<[name |-> name, count |-> count]>>,
              itemsGathered |-> EmptyMap, recipeStack |-> <<>>, newRecipeStack |-> <<>>,
              encounters |-> <<>>, demanded |-> [n \in GItems |-> 0], steps |-> 0]
    /\ UNCHANGED <<ext, list, slots, pc, op, gen, yielded, pre, calls, type, storagesByType, sop, data>>

\* one iteration of while (itemsToGather.length !== 0)
GatherStep ==
    /\ gi.name = "gatherIngredients"
    /\ gi.phase = "loop"
    /\ gi.itemsToGather # <<>>
    /\ gi.steps < MaxGatherSteps
    /\ LET depth == Len(gi.itemsToGather)
           currentOutput == gi.itemsToGather[depth]
           rest == SubSeq(gi.itemsToGather, 1, depth - 1)
           currentUsage == Get(gi.itemsGathered, currentOutput.name, 0)
           totalCount == gi.stock[currentOutput.name]
           craftAmount == CraftAmount(currentOutput.count, totalCount, currentUsage)
           seen == [gi EXCEPT !.steps = @ + 1,
                              !.demanded[currentOutput.name] = @ + currentOutput.count]
       IN  IF NeedsCraft(craftAmount)
           THEN IF HasRecipe(gi.recipes, currentOutput.name)
                THEN LET recipeToUse == gi.recipes[currentOutput.name]
                         recipeMultiplier == Ceil(craftAmount, recipeToUse.output.count)
                     IN  gi' = [seen EXCEPT
                                   !.itemsGathered = SetKey(@, currentOutput.name, totalCount),
                                   !.itemsToGather = rest \o Scaled(recipeToUse.input, recipeMultiplier),
                                   !.recipes = SetKey(@, currentOutput.name,
                                                      WithCount(recipeToUse, recipeMultiplier)),
                                   !.recipeStack = Append(@, currentOutput.name),
                                   !.encounters = Append(@, [name |-> currentOutput.name,
                                                             craftAmount |-> craftAmount,
                                                             multiplier |-> recipeMultiplier])]
                ELSE gi' = [seen EXCEPT
                               !.itemsGathered = SetKey(@, currentOutput.name,
                                                        currentUsage + craftAmount),
                               !.itemsToGather = rest]
           ELSE gi' = [seen EXCEPT
                          !.itemsGathered = SetKey(@, currentOutput.name,
                                                   currentUsage + currentOutput.count),
                          !.itemsToGather = rest]
    /\ UNCHANGED <<ext, list, slots, pc, op, gen, yielded, pre, calls, type, storagesByType, sop, data>>

\* duplicateRecipes after its loop: for every output name of recipeStack
\* the first index and the sum of recipe.count, read from the tables as
\* they are after the traversal
FirstSeen(stack, name) == Min({i \in 1..Len(stack) : stack[i] = name})

RECURSIVE TotalRecipeCount(_, _, _)
TotalRecipeCount(recipes, stack, name) ==
    IF stack = <<>> THEN 0
    ELSE (IF Head(stack) = name THEN recipes[name].count ELSE 0)
            + TotalRecipeCount(recipes, Tail(stack), name)

\* newRecipeStack: the entries standing at their firstSeen index
RECURSIVE KeepFirst(_, _)
KeepFirst(stack, i) ==
    IF i > Len(stack) THEN <<>>
    ELSE (IF i = FirstSeen(stack, stack[i]) THEN <<stack[i]>> ELSE <<>>) \o KeepFirst(stack, i + 1)

\* resolve duplicates, preserve order; return [itemsGathered, newRecipeStack]
GatherResolve ==
    /\ gi.name = "gatherIngredients"
    /\ gi.phase = "loop"
    /\ gi.itemsToGather = <<>>
    /\ LET names == {gi.recipeStack[i] : i \in 1..Len(gi.recipeStack)}
           total == [n \in names |-> TotalRecipeCount(gi.recipes, gi.recipeStack, n)]
       IN  gi' = [gi EXCEPT
                     !.phase = "returned",
                     !.recipes = [n \in DOMAIN gi.recipes |->
                                     IF n \in names THEN WithCount(gi.recipes[n], total[n])
                                     ELSE gi.recipes[n]],
                     !.newRecipeStack = KeepFirst(gi.recipeStack, 1)]
    /\ UNCHANGED <<ext, list, slots, pc, op, gen, yielded, pre, calls, type, storagesByType, sop, data>>

GatherIngredients == \E name \in GItems, count \in 0..MaxRequest : GatherCall(name, count)

\* ------------------------------------------------ the craft operation
\* variant for comparison: nothing is ever seen as missing
IsMissingNever(storeCount, usedCount) == FALSE

\* if (storeCount < usedCount) missingStrs.push(strVal)
IsMissing(storeCount, usedCount) == storeCount < usedCount

\* the entries of itemsUsed reported as to be inserted; storeCount is
\* getTotalItemCount(name), which nothing has changed since the traversal
MissingItems ==
    {n \in DOMAIN gi.itemsGathered :
        gi.itemsGathered[n] # 0 /\ IsMissing(gi.stock[n], gi.itemsGathered[n])}

\* rootMenu.C after gatherIngredients has returned, up to the prompt:
\* "Error: the following items must be inserted:" and return, or
\* "The following items will be consumed:"
CraftCheck ==
    /\ gi.name = "gatherIngredients"
    /\ gi.phase = "returned"
    /\ gi' = [phase |-> IF MissingItems # {} THEN "missing" ELSE "prompt",
              missing |-> MissingItems, plan |-> gi.newRecipeStack,
              at |-> 0, transfers |-> 0, consent |-> FALSE, short |-> FALSE] @@ gi
    /\ UNCHANGED <<ext, list, slots, pc, op, gen, yielded, pre, calls, type, storagesByType, sop, data>>

\* if (!getConsent("Is the above correct?")) return
CraftConsent(answer) ==
    /\ gi.name = "gatherIngredients"
    /\ gi.phase = "prompt"
    /\ gi' = [gi EXCEPT !.phase = IF answer THEN "crafting" ELSE "declined",
                        !.consent = answer]
    /\ UNCHANGED <<ext, list, slots, pc, op, gen, yielded, pre, calls, type, storagesByType, sop, data>>

\* variant for comparison: what the call moved is not compared
TransferShortNever(enough) == FALSE

\* if (moveItemFromMany(...) < inputItem.count * countMultiplier)
TransferShort(enough) == ~enough

\* one moveItemFromMany call of the loop over the plan, taken from its end:
\* the inputs of the recipe go to its machine, round robin where there are
\* several; a call that moved less than asked ends the operation ("Error
\* crafting"), the last one of a recipe is followed by the wait for its
\* product.  What a call moves is the matter of Storage: here it is enough
\* or it is not, and short records that a call moved less than asked.
CraftTransfer(enough) ==
    /\ gi.name = "gatherIngredients"
    /\ gi.phase = "crafting"
    /\ gi.plan # <<>>
    /\ LET currentRecipe == gi.recipes[gi.plan[Len(gi.plan)]]
           repeatCount == IF Len(currentRecipe.input) > 1 THEN currentRecipe.count ELSE 1
           movesOfRecipe == repeatCount * Len(currentRecipe.input)
           moved == [gi EXCEPT !.transfers = @ + 1, !.short = @ \/ ~enough]
       IN  IF TransferShort(enough)
           THEN gi' = [moved EXCEPT !.phase = "failed"]
           ELSE IF gi.at + 1 < movesOfRecipe
           THEN gi' = [moved EXCEPT !.at = @ + 1]
           ELSE gi' = [moved EXCEPT !.at = 0, !.plan = SubSeq(@, 1, Len(@) - 1)]
    /\ UNCHANGED <<ext, list, slots, pc, op, gen, yielded, pre, calls, type, storagesByType, sop, data>>

\* the plan is through: the product goes to the output chest
CraftDeliver ==
    /\ gi.name = "gatherIngredients"
    /\ gi.phase = "crafting"
    /\ gi.plan = <<>>
    /\ gi' = [gi EXCEPT !.transfers = @ + 1, !.phase = "done"]
    /\ UNCHANGED <<ext, list, slots, pc, op, gen, yielded, pre, calls, type, storagesByType, sop, data>>

\* ------------------------------------------------ Storage.getItemNames
\* the keys a pairs() loop passes; the order, which Lua leaves open, is of
\* no account to what is asked of the result
RECURSIVE KeysOf(_)
KeysOf(S) ==
    IF S = {} THEN <<>>
    ELSE LET k == CHOOSE x \in S : TRUE
         IN  <<k>> \o KeysOf(S \ {k})

\* for (const [, inv] of this._inventories) for (const [name] of inv.getSlots())
RECURSIVE NamesOver(_)
NamesOver(hs) ==
    IF hs = {} THEN <<>>
    ELSE LET h == CHOOSE x \in hs : TRUE
         IN  KeysOf(DOMAIN slots[h]) \o NamesOver(hs \ {h})

getItemNames(insertedValues) == insertedValues \o NamesOver(Peripherals)

\* the craftable items handed in by the menus: no name twice
InsertedValues == {<<>>} \cup {<<n>> : n \in Items}
                      \cup UNION {{<<n, m>> : m \in Items \ {n}} : n \in Items}

GetItemNamesCall(insertedValues) ==
    /\ Ready
    /\ op' = [name |-> "getItemNames", insertedValues |-> insertedValues,
              result |-> getItemNames(insertedValues)]
    /\ pc' = "returned"
    /\ pre' = Snapshot
    /\ calls' = calls + 1
    /\ UNCHANGED <<ext, list, slots, gen, yielded, type, storagesByType, sop, gi, data>>

GetItemNames == \E insertedValues \in InsertedValues : GetItemNamesCall(insertedValues)

\* ------------------------------------------- Data: the registry calls
LastCall(name, arg) ==
    [name |-> name, arg |-> arg,
     before |-> [recipeTypes |-> data.recipeTypes, recipes |-> data.recipes]]

\* _addRecipe(recipe), called on its own
AddRecipeCall(recipe) ==
    /\ Ready
    /\ data' = [addRecipe([data EXCEPT !.printed = <<>>], recipe)
                   EXCEPT !.last = LastCall("_addRecipe", recipe)]
    /\ calls' = calls + 1
    /\ UNCHANGED <<ext, list, slots, pc, op, gen, yielded, pre, type, storagesByType, sop, gi>>

\* _addRecipeType(recipeType), with the recipes of its directory
AddRecipeTypeCall(recipeType) ==
    /\ Ready
    /\ data' = [addRecipeType([data EXCEPT !.printed = <<>>], recipeType)
                   EXCEPT !.last = LastCall("_addRecipeType", recipeType)]
    /\ calls' = calls + 1
    /\ UNCHANGED <<ext, list, slots, pc, op, gen, yielded, pre, type, storagesByType, sop, gi>>

\* Data.init with the settings as they are now: types and recipes are
\* loaded anew, the roles are worked out, every inventory is wrapped again
DataInitCall(settings) ==
    /\ Ready
    /\ LET d == loadRecipeTypesFromDirectory([data EXCEPT !.printed = <<>>])
           sets == DataInit(settings, d.recipeTypes, Peripherals)
       IN  /\ data' = [d EXCEPT !.last = LastCall("init", settings)]
           /\ storagesByType' = sets
           /\ type' = [h \in Peripherals |-> StorageTypeOf(h, sets.Input, sets.Output)]
    /\ list' = ext
    /\ slots' = [h \in Peripherals |-> SyncedSlots(ext[h])]
    /\ pc' = "returned"
    /\ op' = [name |-> "init"]
    /\ pre' = Snapshot
    /\ calls' = calls + 1
    /\ UNCHANGED <<ext, gen, yielded, sop, gi>>

\* ------------------------------------------------ Data of src/data.ts
\* the role sets are fields of Data here.  Data.init fills Input, Output
\* and Storage; the NotInput set stays as the constructor made it
DataInitSets(settings, recipeTypes, peripherals) ==
    [DataInit(settings, recipeTypes, peripherals) EXCEPT !.NotInput = {}]

StorageTypes == {"Input", "Output", "Storage", "NotInput"}

\* Data.getStoragesByType(sType) over the sets as they are: what it returns
\* and what _storagesByType is afterwards.  For NotInput the names of Output
\* are added to the set held under Storage, and that set is returned
DataGetStoragesByType(sets, sType) ==
    IF sType # "NotInput"
    THEN [result |-> sets[sType], sets |-> sets]
    ELSE LET storages == sets.Storage \cup sets.Output
         IN  [result |-> storages, sets |-> [sets EXCEPT !.Storage = storages]]

GetStoragesByTypeCall(sType) ==
    /\ Ready
    /\ LET r == DataGetStoragesByType(storagesByType, sType)
       IN  /\ storagesByType' = r.sets
           /\ op' = [name |-> "getStoragesByType", sType |-> sType,
                     result |-> r.result, before |-> storagesByType]
    /\ pc' = "returned"
    /\ pre' = Snapshot
    /\ calls' = calls + 1
    /\ UNCHANGED <<ext, list, slots, gen, yielded, type, sop, gi, data>>

GetStoragesByType == \E sType \in StorageTypes : GetStoragesByTypeCall(sType)

AddRecipe == \E recipe \in Recipes : AddRecipeCall(recipe)

AddRecipeType == \E recipeType \in RecipeTypes : AddRecipeTypeCall(recipeType)

PushItems ==
    \E src \in Handles, dst \in Handles, s \in Slots, hasLimit \in BOOLEAN, l \in 1..MaxLimit :
        PushCall(src, dst, s, hasLimit, l)

PushItemsByType ==
    \E src \in Handles, dst \in Handles, s \in Slots, hasLimit \in BOOLEAN, l \in 1..MaxLimit :
        PushCallByType(src, dst, s, hasLimit, l)

Receive ==
    \E h \in Handles, n \in Items, c \in 1..ItemLimit : \E s \in 1..size(h) :
        ReceiveItems(h, n, s, c)

Next ==
    \/ calls < MaxCalls /\ \E h \in Handles : \E s \in 1..size(h) : Tamper(h, s)
    \/ calls < MaxCalls /\ \E h \in Handles : syncData(h)
    \/ calls < MaxCalls /\ Receive
    \/ calls < MaxCalls /\ PushItems
    \/ PushStep
    \/ calls < MaxCalls /\ \E h \in Handles, n \in Items : GenCall(h, n)
    \/ GenNext

Spec == Init /\ [][Next]_vars

\* the program only pushes and books insertions, one call more
NextDeep ==
    \/ calls < MaxDeepCalls /\ Receive
    \/ calls < MaxDeepCalls /\ PushItems
    \/ PushStep

SpecDeep == Init /\ [][NextDeep]_vars

\* the program built on the role-typed Inventory
NextTyped ==
    \/ calls < MaxCalls /\ \E h \in Handles : \E s \in 1..size(h) : Tamper(h, s)
    \/ calls < MaxCalls /\ \E h \in Handles : syncData(h)
    \/ calls < MaxCalls /\ PushItemsByType
    \/ PushStep

SpecTyped == Init /\ [][NextTyped]_vars

\* the move operations of Storage and Data, on three inventories
NextStorage ==
    \/ calls < MaxMoves /\ MoveItemFromOne
    \/ calls < MaxMoves /\ MoveItemFromMany
    \/ calls < MaxMoves /\ MoveOneToMany
    \/ StorageStep
    \/ StorageResume
    \/ PushStep
    \/ PushStepQueued

SpecStorage == InitStorage /\ [][NextStorage]_vars

\* items are stored with moveOneToMany, time and again
NextStore ==
    \/ calls < MaxStores /\ MoveOneToMany
    \/ StorageStep
    \/ StorageResume
    \/ PushStep

SpecStore == InitStorage /\ [][NextStore]_vars

\* Data with its recipes loaded and the stock its storage reports
InitGather ==
    /\ Wrapped([h \in Peripherals |-> EmptyMap], DefaultSettings)
    /\ sop = NoCall
    /\ data = NoFiles
    /\ \E recipes \in Registries, stock \in Stocks : gi = GatherIdle(recipes, stock)

NextGather ==
    \/ GatherIngredients
    \/ GatherStep
    \/ GatherResolve

SpecGather == InitGather /\ [][NextGather]_vars

\* gatherIngredients runs to its end once called: its loop and the
\* resolution of duplicates are one synchronous call
SpecGatherFair ==
    /\ InitGather
    /\ [][NextGather]_vars
    /\ WF_vars(GatherStep)
    /\ WF_vars(GatherResolve)

\* a fresh installation: ./types/ is empty, definitions are added one by one
InitRegistry ==
    /\ Wrapped([h \in Peripherals |-> EmptyMap], DefaultSettings)
    /\ sop = NoCall
    /\ gi = NoCall
    /\ \E recipeFiles \in RecipeFiles : data = DataOver(<<>>, recipeFiles)

NextRegistry ==
    \/ calls < MaxAdds /\ AddRecipeType
    \/ calls < MaxAdds /\ AddRecipe

SpecRegistry == InitRegistry /\ [][NextRegistry]_vars

\* Data constructed over the definition files, and initialised again after
\* the settings were changed
InitData ==
    \E typeFiles \in TypeFiles, recipeFiles \in RecipeFiles, st \in SettingsChoices :
        LET d == loadRecipeTypesFromDirectory(DataOver(typeFiles, recipeFiles))
        IN  /\ WrappedWith([h \in Peripherals |-> EmptyMap], st, d.recipeTypes)
            /\ sop = NoCall
            /\ gi = NoCall
            /\ data = [d EXCEPT !.last = [name |-> "init", arg |-> st,
                                          before |-> [recipeTypes |-> {}, recipes |-> {}]]]

NextData == calls < MaxCalls /\ \E settings \in SettingsChoices : DataInitCall(settings)

SpecData == InitData /\ [][NextData]_vars

\* Data of src/data.ts constructed and initialised over the recipe types
\* its ./types/ gave it
InitRoles ==
    \E st \in SettingsChoices, recipeTypes \in SUBSET RecipeTypes :
        /\ Cardinality(recipeTypes) <= MaxTypeFiles
        /\ LET e == [h \in Peripherals |-> EmptyMap]
               sets == DataInitSets(st, recipeTypes, Peripherals)
           IN  /\ ext = e
               /\ list = e
               /\ slots = [h \in Peripherals |-> EmptyMap]
               /\ pre = [list |-> e, slots |-> [h \in Peripherals |-> EmptyMap], ext |-> e]
               /\ storagesByType = sets
               /\ type = [h \in Peripherals |-> StorageTypeOf(h, sets.Input, sets.Output)]
        /\ pc = "idle"
        /\ op = NoCall
        /\ gen = NewGenerator("left", "a")
        /\ yielded = <<>>
        /\ calls = 0
        /\ sop = NoCall
        /\ gi = NoCall
        /\ data = NoFiles

NextRoles == calls < MaxCalls /\ GetStoragesByType

SpecRoles == InitRoles /\ [][NextRoles]_vars

\* items are pushed about and the item names are asked for
NextNames ==
    \/ calls < MaxCalls /\ PushItems
    \/ PushStep
    \/ calls < MaxCalls /\ GetItemNames

SpecNames == InitStorage /\ [][NextNames]_vars

\* the craft operation of the menu: the plan is gathered, checked, agreed
\* to and run
NextCraft ==
    \/ GatherIngredients
    \/ GatherStep
    \/ GatherResolve
    \/ CraftCheck
    \/ \E answer \in BOOLEAN : CraftConsent(answer)
    \/ \E enough \in BOOLEAN : CraftTransfer(enough)
    \/ CraftDeliver

SpecCraft == InitGather /\ [][NextCraft]_vars

\* ------------------------------------------------ expressions, strings
\* a Lua string is the sequence of its characters
Digits == {"1", "2", "3"}

Operators == {"+", "*", "/", "-"}

\* operators[token].precedence
Precedence(token) == IF token.op \in {"*", "/"} THEN 1 ELSE 0

\* a Lua number: the quotient n / d, d = 0 where a division by 0 gave no
\* finite number
Number(n) == [n |-> n, d |-> 1]

Finite(x) == x.d # 0

\* operators[token].func(num1, num2)
Apply(token, num1, num2) ==
    IF ~Finite(num1) \/ ~Finite(num2) THEN [n |-> 0, d |-> 0]
    ELSE IF token.op = "+" THEN [n |-> num1.n * num2.d + num2.n * num1.d, d |-> num1.d * num2.d]
    ELSE IF token.op = "-" THEN [n |-> num1.n * num2.d - num2.n * num1.d, d |-> num1.d * num2.d]
    ELSE IF token.op = "*" THEN [n |-> num1.n * num2.n, d |-> num1.d * num2.d]
    ELSE [n |-> num1.n * num2.d, d |-> num1.d * num2.n]

\* tonumber(buffer) of a buffer of digits
DigitValue(char) == IF char = "1" THEN 1 ELSE IF char = "2" THEN 2 ELSE 3

RECURSIVE tonumber(_)
tonumber(buffer) ==
    IF buffer = <<>> THEN 0
    ELSE 10 * tonumber(SubSeq(buffer, 1, Len(buffer) - 1)) + DigitValue(buffer[Len(buffer)])

\* tokens.push(tonumber(buffer)): tonumber("") is nil, which push leaves out
PushNumber(tokens, buffer) ==
    IF buffer = <<>> THEN tokens ELSE Append(tokens, Number(tonumber(buffer)))

\* a token of the tokeniser: a number, or an operator character
Operator(char) == [op |-> char]

\* typeof token === 'number'
IsNumber(token) == "op" \notin DOMAIN token

\* tokeniser(expr) from character i on
RECURSIVE Tokenise(_, _, _, _)
Tokenise(expr, i, buffer, tokens) ==
    IF i > Len(expr) THEN PushNumber(tokens, buffer)
    ELSE IF expr[i] = "=" THEN PushNumber(tokens, buffer)
    ELSE LET char == expr[i]
             digits == IF char \in Digits THEN Append(buffer, char) ELSE buffer
         IN  IF char \in Operators
             THEN Tokenise(expr, i + 1, <<>>, Append(PushNumber(tokens, digits), Operator(char)))
             ELSE Tokenise(expr, i + 1, digits, tokens)

tokeniser(expr) == Tokenise(expr, 1, <<>>, <<>>)

\* while the operator on top of the stack binds at least as tightly as
\* token it goes to the output, then token is pushed
RECURSIVE PushOperator(_, _, _)
PushOperator(token, outputQueue, operatorStack) ==
    IF operatorStack = <<>>
    THEN [outputQueue |-> outputQueue, operatorStack |-> <<token>>]
    ELSE IF Precedence(token) <= Precedence(operatorStack[Len(operatorStack)])
    THEN PushOperator(token, Append(outputQueue, operatorStack[Len(operatorStack)]),
                      SubSeq(operatorStack, 1, Len(operatorStack) - 1))
    ELSE [outputQueue |-> outputQueue, operatorStack |-> Append(operatorStack, token)]

\* convertToPostfix(tokens) from token i on; what is left on the stack is
\* appended in the order of the array, the oldest operator first
RECURSIVE ToPostfix(_, _, _, _)
ToPostfix(tokens, i, outputQueue, operatorStack) ==
    IF i > Len(tokens) THEN outputQueue \o operatorStack
    ELSE IF IsNumber(tokens[i])
    THEN ToPostfix(tokens, i + 1, Append(outputQueue, tokens[i]), operatorStack)
    ELSE LET r == PushOperator(tokens[i], outputQueue, operatorStack)
         IN  ToPostfix(tokens, i + 1, r.outputQueue, r.operatorStack)

convertToPostfix(tokens) == ToPostfix(tokens, 1, <<>>, <<>>)

Undefined == [undefined |-> TRUE]

\* expressionEvaluator over the postfix tokens from token i on
RECURSIVE Evaluate(_, _, _)
Evaluate(postfixTokens, i, operatingStack) ==
    IF i > Len(postfixTokens)
    THEN IF operatingStack = <<>> THEN Undefined ELSE operatingStack[Len(operatingStack)]
    ELSE IF IsNumber(postfixTokens[i])
    THEN Evaluate(postfixTokens, i + 1, Append(operatingStack, postfixTokens[i]))
    ELSE IF Len(operatingStack) < 2 THEN Undefined
    ELSE LET num2 == operatingStack[Len(operatingStack)]
             num1 == operatingStack[Len(operatingStack) - 1]
         IN  Evaluate(postfixTokens, i + 1,
                      Append(SubSeq(operatingStack, 1, Len(operatingStack) - 2),
                             Apply(postfixTokens[i], num1, num2)))

expressionEvaluator(expr) == Evaluate(convertToPostfix(tokeniser(expr)), 1, <<>>)

\* the amounts a user may type
Expressions == SeqsUpTo(Digits \cup Operators, MaxExprLen)

\* string.find(value, separator, pointer, true): the first index at or
\* after pointer where separator stands, 0 for nil
FindPlain(value, separator, pointer) ==
    LET at == {i \in pointer..(Len(value) - Len(separator) + 1) :
                  SubSeq(value, i, i + Len(separator) - 1) = separator}
    IN  IF at = {} THEN 0 ELSE Min(at)

\* the do ... while loop of splitString
RECURSIVE Split(_, _, _, _)
Split(value, separator, pointer, splitStrings) ==
    LET start == FindPlain(value, separator, pointer)
        finish == start + Len(separator) - 1
    IN  IF start = 0
        THEN Append(splitStrings, SubSeq(value, pointer, Len(value)))
        ELSE LET parts == Append(splitStrings, SubSeq(value, pointer, start - 1))
             IN  IF finish + 1 < Len(value)
                 THEN Split(value, separator, finish + 1, parts)
                 ELSE parts

splitString(value, separator) == Split(value, separator, 1, <<>>)

namespaceValidator(value) == Len(splitString(value, <<":">>)) = 2

\* the identifiers a user may type
Identifiers == SeqsUpTo({"a", "b", ":"}, MaxIdLen)

\* the program is up over empty inventories; o is what was typed
Typed(o) ==
    /\ Wrapped([h \in Peripherals |-> EmptyMap], DefaultSettings)
    /\ sop = NoCall
    /\ gi = NoCall
    /\ data = o

ExpressionEvaluatorCall ==
    /\ pc = "idle"
    /\ data.name = "expression"
    /\ op' = [name |-> "expressionEvaluator", expr |-> data.input,
              tokens |-> tokeniser(data.input),
              postfixTokens |-> convertToPostfix(tokeniser(data.input)),
              result |-> expressionEvaluator(data.input)]
    /\ pc' = "returned"
    /\ UNCHANGED <<ext, list, slots, gen, yielded, pre, calls, type, storagesByType, sop, gi, data>>

NamespaceValidatorCall ==
    /\ pc = "idle"
    /\ data.name = "identifier"
    /\ op' = [name |-> "namespaceValidator", value |-> data.input,
              parts |-> splitString(data.input, <<":">>),
              result |-> namespaceValidator(data.input)]
    /\ pc' = "returned"
    /\ UNCHANGED <<ext, list, slots, gen, yielded, pre, calls, type, storagesByType, sop, gi, data>>

InitExpressions == \E expr \in Expressions : Typed([name |-> "expression", input |-> expr])

SpecExpressions == InitExpressions /\ [][ExpressionEvaluatorCall]_vars

InitIdentifiers == \E value \in Identifiers : Typed([name |-> "identifier", input |-> value])

SpecIdentifiers == InitIdentifiers /\ [][NamespaceValidatorCall]_vars

\* ================================================================ claims
InPush == op.name = "pushItems"

PushReturned == InPush /\ pc = "returned"

\* C1: a pushItems call from S to D leaves (cached count of the moved item
\* in S) + (cached count of it in D) as it was when the call started.
C1_Conservation ==
    InPush =>
        getItemCount(op.src, op.item) + getItemCount(op.dst, op.item)
            = ItemCountIn(pre.slots[op.src], op.item) + ItemCountIn(pre.slots[op.dst], op.item)

\* the index of handle h books count c for item n at slot s
IndexHolds(h, n, s, c) ==
    IF n \notin DOMAIN slots[h] THEN FALSE
    ELSE IF s \notin DOMAIN slots[h][n] THEN FALSE
    ELSE slots[h][n][s] = c

\* the list of handle h holds c of item n at slot s
ListHolds(h, n, s, c) ==
    IF s \notin DOMAIN list[h] THEN FALSE
    ELSE list[h][s] = [name |-> n, count |-> c]

Counts == (0 - MaxDeepCalls * ItemLimit)..((MaxDeepCalls + 1) * ItemLimit)

\* C2: index and list are in lockstep, whenever no call is in progress:
\* the index holds count c for (n, s) iff the list holds (n, c) at s.
C2_Lockstep ==
    pc \in {"idle", "returned"} =>
        \A h \in Handles, n \in Items, s \in Slots, c \in Counts :
            IndexHolds(h, n, s, c) <=> ListHolds(h, n, s, c)

\* the cache of handle h in snapshot snap equals the inventory: the list is
\* the listing and the index books exactly the listing's slots
InSync(snap, h) ==
    /\ snap.list[h] = snap.ext[h]
    /\ \A n \in Items, s \in Slots :
          LET booked == IF n \in DOMAIN snap.slots[h] THEN s \in DOMAIN snap.slots[h][n] ELSE FALSE
              there == IF s \in DOMAIN snap.ext[h] THEN snap.ext[h][s].name = n ELSE FALSE
          IN  /\ booked <=> there
              /\ booked /\ there => snap.slots[h][n][s] = snap.ext[h][s].count

\* C3: a pushItems call that starts with the caches of source and
\* destination equal to the inventories ends with them equal again, slot by
\* slot (same item, same count, empty where empty).
C3_Coherence ==
    (PushReturned /\ InSync(pre, op.src) /\ InSync(pre, op.dst))
        => (InSync(Snapshot, op.src) /\ InSync(Snapshot, op.dst))

\* C4: getItemCount of a handle whose role is Input is 0 for every item.
C4_InputCountsZero ==
    \A h \in Handles, x \in Items : type[h] = "Input" => getItemCountByType(h, x) = 0

C4_Witness ==
    \E h \in Handles, x \in Items :
        /\ type[h] = "Input"
        /\ pc = "returned" /\ op.name = "receiveItems" /\ op.h = h /\ op.item = x
        /\ ItemCountIn(slots[h], x) > 0
        /\ getItemCountByType(h, x) = 0

\* what the index of h books for item at slot s
Booked(h, item, s) ==
    IF item \notin DOMAIN slots[h] THEN 0
    ELSE IF s \notin DOMAIN slots[h][item] THEN 0
    ELSE slots[h][item][s]

CachedCount(h, item) == SumOver([s \in Slots |-> Booked(h, item, s)], Slots)

\* C5: getTotalItemCount(item) is the sum of the cached counts over exactly
\* the NotInput handles, and 0 for an item only Input-role handles hold.
C5_TotalOverNotInput ==
    \A item \in Items :
        /\ getTotalItemCount(item)
              = SumOver([h \in Peripherals |->
                            IF h \in storagesByType.NotInput THEN CachedCount(h, item) ELSE 0],
                        Peripherals)
        /\ (\A h \in Peripherals \ storagesByType.Input : CachedCount(h, item) = 0)
              => getTotalItemCount(item) = 0

C5_Witness ==
    \E item \in Items, h \in Handles :
        /\ h \in storagesByType.Input
        /\ CachedCount(h, item) > 0
        /\ \A g \in Handles \ storagesByType.Input : CachedCount(g, item) = 0
        /\ \E other \in Items : getTotalItemCount(other) > 0
        /\ getTotalItemCount(item) = 0

\* the caller drains the coroutine and leaves the handle alone, so a slot
\* is empty or partially filled for the whole of the call
Draining == op.name = "getNextAvailableSlot"

EmptyNow(s) == IsUndefined(op.h, s)

PartialNow(s) == \E c \in Counts : c < ItemLimit /\ IndexHolds(op.h, op.item, s, c)

\* C6: every partially filled slot of the item is yielded before any empty
\* slot, and the empty slots yielded come in strictly increasing index.
C6_PartialThenEmpty ==
    Draining =>
        \A i \in 1..Len(yielded), j \in 1..Len(yielded) :
            (i < j /\ EmptyNow(yielded[i])) => (EmptyNow(yielded[j]) /\ yielded[i] < yielded[j])

\* C7: the sequence is finite, it ends once the partial slots and the empty
\* slots are exhausted: it never has more members than there are such slots.
C7_Finite ==
    Draining =>
        Len(yielded) <= Cardinality({s \in Slots : PartialNow(s)})
                        + Cardinality({s \in 1..size(op.h) : EmptyNow(s)})

SyncReturned == pc = "returned" /\ op.name = "syncData"

ExtCount(h, n) ==
    SumOver([s \in Slots |-> IF s \notin DOMAIN ext[h] THEN 0
                              ELSE IF ext[h][s].name = n THEN ext[h][s].count ELSE 0], Slots)

\* C8 as claimed: right after syncData getItemCount(n) is the external sum
\* of n, on every handle.
C8_AsClaimed ==
    SyncReturned => \A n \in Items : getItemCountByType(op.h, n) = ExtCount(op.h, n)

\* C8 amended: right after syncData getSlot(s) is list()[s] for every slot,
\* the index books nothing but the listing, and getItemCount(n) is the
\* external sum of n on a handle whose role is not Input (and in the
\* Inventory without roles).
C8_SyncAgrees ==
    SyncReturned =>
        /\ InSync(Snapshot, op.h)
        /\ \A s \in Slots : getSlot(op.h, s) = Get(ext[op.h], s, EmptyMap)
        /\ \A n \in Items :
              /\ getItemCount(op.h, n) = ExtCount(op.h, n)
              /\ type[op.h] # "Input" => getItemCountByType(op.h, n) = ExtCount(op.h, n)
              /\ n \in DOMAIN slots[op.h] => ExtCount(op.h, n) > 0

C8_Witness ==
    /\ SyncReturned
    /\ type[op.h] # "Input"
    /\ ~InSync(pre, op.h)
    /\ \E s \in DOMAIN pre.list[op.h] : ~HasCount(pre.list[op.h][s])
    /\ \E n \in Items : ExtCount(op.h, n) > 0

ReceiveReturned == pc = "returned" /\ op.name = "receiveItems"

\* C9 as claimed: after receiveItems(name, slot, n) getItemCount(name) is n
\* larger, on every handle.
C9_AsClaimed ==
    ReceiveReturned =>
        getItemCountByType(op.h, op.item)
            = (IF type[op.h] = "Input" THEN 0 ELSE ItemCountIn(pre.slots[op.h], op.item)) + op.count

\* C9 amended: after receiveItems(name, slot, n) the index entry for
\* (name, slot) and the count of the list entry at slot are the old entry
\* plus n, and getItemCount(name) is n larger on a handle whose role is not
\* Input (and in the Inventory without roles).
C9_Receive ==
    ReceiveReturned =>
        LET h == op.h
            total == Get(Get(pre.slots[h], op.item, EmptyMap), op.slot, 0) + op.count
        IN  /\ getItemCount(h, op.item) = ItemCountIn(pre.slots[h], op.item) + op.count
            /\ type[h] # "Input" =>
                  getItemCountByType(h, op.item) = ItemCountIn(pre.slots[h], op.item) + op.count
            /\ IndexHolds(h, op.item, op.slot, total)
            /\ IF op.slot \notin DOMAIN list[h] THEN FALSE
               ELSE IF ~HasCount(list[h][op.slot]) THEN FALSE
               ELSE list[h][op.slot].count = total

C9_Witness ==
    /\ ReceiveReturned
    /\ type[op.h] # "Input"
    /\ Get(Get(pre.slots[op.h], op.item, EmptyMap), op.slot, 0) > 0
    /\ op.count > 1

\* room for item in the inventory of handle h as snapshot snap has it
FreeCapacity(snap, h, item) ==
    SumOver([s \in Slots |->
                IF s > size(h) THEN 0
                ELSE IF s \notin DOMAIN snap.ext[h] THEN ItemLimit
                ELSE IF snap.ext[h][s].name = item THEN ItemLimit - snap.ext[h][s].count
                ELSE 0], Slots)

LimitAsked ==
    IF op.hasLimit THEN op.limitArg
    ELSE IF HasCount(pre.list[op.src][op.fromSlot]) THEN pre.list[op.src][op.fromSlot].count
    ELSE 0

\* C10: pushItems returns at most limit (by default the count of fromSlot),
\* and with caches equal to the inventories it returns
\* min(limit, count of fromSlot, free capacity of the destination).
C10_Returns ==
    PushReturned =>
        /\ op.totalMoved <= LimitAsked
        /\ (InSync(pre, op.src) /\ InSync(pre, op.dst)) =>
              op.totalMoved = Min({LimitAsked, pre.list[op.src][op.fromSlot].count,
                                   FreeCapacity(pre, op.dst, op.item)})

\* the destination ran out of slots before limit was reached
C10_Witness ==
    /\ PushReturned
    /\ InSync(pre, op.src) /\ InSync(pre, op.dst)
    /\ op.totalMoved > 0
    /\ op.totalMoved < LimitAsked
    /\ op.totalMoved < pre.list[op.src][op.fromSlot].count
    /\ gen.phase = "dead"

\* C11: pushItems on a handle whose role is Input is reported and aborts:
\* no transfer is issued and the caches of source and destination stay as
\* they were.
C11_InputPushRefused ==
    IF op.name \in {"pushItems", "pushItemsByType"}
    THEN IF type[op.src] = "Input"
         THEN /\ op.name = "pushItemsByType"
              /\ op.printed = "Error: attempting to push items from an input storage"
              /\ pc = "returned"
              /\ Snapshot = pre
         ELSE op.name = "pushItems"
    ELSE TRUE

\* the refused call would have moved something
C11_Witness ==
    IF op.name = "pushItemsByType"
    THEN /\ op.fromSlot \in DOMAIN ext[op.src]
         /\ op.fromSlot \in DOMAIN list[op.src]
         /\ UndefinedSlots(op.dst) # {}
         /\ ext[op.dst] = list[op.dst]
    ELSE FALSE

\* the slot pushItems was called on held nothing, as far as the cache told
HeldNothing ==
    IF ~InPush THEN FALSE
    ELSE IF op.fromSlot \notin DOMAIN pre.list[op.src] THEN TRUE
    ELSE ~HasCount(pre.list[op.src][op.fromSlot])

\* C12: pushItems from a slot that holds no item, never occupied or drained
\* earlier, returns 0 and leaves the destination as it was.
C12_EmptySlotReturnsZero ==
    HeldNothing =>
        /\ pc = "returned"
        /\ op.totalMoved = 0
        /\ list[op.dst] = pre.list[op.dst]
        /\ slots[op.dst] = pre.slots[op.dst]
        /\ ext[op.dst] = pre.ext[op.dst]

\* units of item n the inventory h holds in e
CountIn(e, h, n) ==
    SumOver([s \in Slots |-> IF s \notin DOMAIN e[h] THEN 0
                              ELSE IF e[h][s].name = n THEN e[h][s].count ELSE 0], Slots)

\* the same over a set of inventories
CountOver(e, hs, n) ==
    SumOver([h \in Peripherals |-> IF h \in hs THEN CountIn(e, h, n) ELSE 0], Peripherals)

SopReturned(name) == IF sop.name = name THEN ~sop.running ELSE FALSE

\* units of the item that left the sources since the operation started
MovedOut == CountOver(sop.start.ext, sop.from, sop.item) - CountOver(ext, sop.from, sop.item)

\* units of the item that arrived in the destinations
MovedIn == CountOver(ext, sop.to, sop.item) - CountOver(sop.start.ext, sop.to, sop.item)

\* the caches of every inventory of the operation were fresh when it started
StartedInSync == \A h \in sop.from \cup sop.to : InSync(sop.start, h)

C14_OneReturnsReached ==
    (SopReturned("moveItemFromOne") /\ sop.impl = "Storage") =>
        /\ sop.result \in {"true", "false"}
        /\ sop.result = "true" <=> MovedOut = sop.startingLimit
        /\ CountOver(sop.start.ext, sop.from, sop.item) = 0 => sop.result = "false"
        /\ MovedIn = MovedOut

\* true after both destinations took a part
C14_Witness ==
    /\ SopReturned("moveItemFromOne")
    /\ sop.impl = "Storage"
    /\ sop.result = "true"
    /\ \A h \in sop.to : CountIn(ext, h, sop.item) > CountIn(sop.start.ext, h, sop.item)
    /\ Cardinality(sop.to) = 2

\* C15: moveItemFromOne never moves more than limit units, in Storage and in
\* Data, with the item in several source slots or with several destinations.
C15_NeverAboveLimit ==
    IF sop.name = "moveItemFromOne" THEN MovedOut <= sop.startingLimit ELSE TRUE

\* slot s of from still holds an item some destination has room for
Deliverable(s) ==
    LET from == TheOne(sop.from)
    IN  IF s \notin DOMAIN ext[from] THEN FALSE
        ELSE \E h \in sop.to : \E t \in 1..size(h) : RoomIn(ext, h, t, ext[from][s].name) > 0

\* C16: after moveOneToMany an item is left in from only if no destination
\* has an available slot for it.
C16_LeftOnlyIfFull ==
    SopReturned("moveOneToMany") => \A s \in Slots : ~Deliverable(s)

GatherReturned == IF gi.name = "gatherIngredients" THEN gi.phase = "returned" ELSE FALSE

\* C17: gatherIngredients(x, 0) returns an empty plan and a gathered map
\* with no positive entry, whatever the item, the stock and the recipes.
C17_ZeroRequest ==
    (GatherReturned /\ gi.count = 0) =>
        /\ gi.newRecipeStack = <<>>
        /\ \A n \in DOMAIN gi.itemsGathered : gi.itemsGathered[n] <= 0

\* nothing asked of an item that has a recipe and is not in stock
C17_Witness ==
    /\ GatherReturned
    /\ gi.count = 0
    /\ HasRecipe(gi.recipes, gi.item)
    /\ gi.stock[gi.item] = 0

\* the multipliers worked out at the encounters of recipe n, summed
RECURSIVE SumOfMultipliers(_, _)
SumOfMultipliers(encounters, n) ==
    IF encounters = <<>> THEN 0
    ELSE (IF Head(encounters).name = n THEN Head(encounters).multiplier ELSE 0)
            + SumOfMultipliers(Tail(encounters), n)

EncounterNames == [i \in 1..Len(gi.encounters) |-> gi.encounters[i].name]

\* C18: a recipe reached on several branches with multipliers m1, m2, ...
\* has exactly one entry in the plan, at its first-encountered position,
\* with multiplier m1 + m2 + ...
C18_DuplicatesSummed ==
    GatherReturned =>
        /\ gi.newRecipeStack = KeepFirst(EncounterNames, 1)
        /\ \A i \in 1..Len(gi.newRecipeStack) :
              LET n == gi.newRecipeStack[i]
              IN  /\ \A j \in 1..Len(gi.newRecipeStack) : gi.newRecipeStack[j] = n => j = i
                  /\ gi.recipes[n].count = SumOfMultipliers(gi.encounters, n)

\* C19: for an item without a recipe the gathered map shows the total
\* quantity the plan consumes of it, also when the stock is short.
C19_GatheredIsConsumption ==
    GatherReturned =>
        \A n \in DOMAIN gi.itemsGathered :
            ~HasRecipe(gi.recipes, n) => gi.itemsGathered[n] = gi.demanded[n]

\* C20: where the quantity demanded of an item without a recipe is above
\* its stock, its entry in the gathered map is above the stock.
C20_MissingDetected ==
    GatherReturned =>
        \A n \in GItems :
            (~HasRecipe(gi.recipes, n) /\ gi.demanded[n] > gi.stock[n])
                => Get(gi.itemsGathered, n, 0) > gi.stock[n]

\* recipe r of the registry takes the product of recipe p as an input
TakesProductOf(r, p) ==
    \E k \in 1..Len(gi.recipes[r].input) : gi.recipes[r].input[k].name = p

\* no recipe needs, through its inputs, its own product
Acyclic == \A n \in DOMAIN gi.recipes : \A k \in 1..Len(gi.recipes[n].input) :
               gi.recipes[n].input[k].name # "machine"

\* C21: the plan run last entry first runs every recipe only after every
\* other recipe of the plan that produces one of its inputs, also where a
\* recipe reached on several branches stands at its first-seen position.
C21_PlanOrder ==
    (GatherReturned /\ Acyclic) =>
        \A i \in 1..Len(gi.newRecipeStack), j \in 1..Len(gi.newRecipeStack) :
            (i # j /\ TakesProductOf(gi.newRecipeStack[i], gi.newRecipeStack[j])) => j > i

\* the loop of gatherIngredients takes one demand off itemsToGather
DemandTaken == IF gi.name = "none" THEN FALSE ELSE gi'.steps = gi.steps + 1

TakenDemand == gi.itemsToGather[Len(gi.itemsToGather)]

RestOfDemands == SubSeq(gi.itemsToGather, 1, Len(gi.itemsToGather) - 1)

Committed(n) == Get(gi.itemsGathered, n, 0)

\* the demand taken is covered by the stock not yet committed
Covered(d) == d.count <= gi.stock[d.name] - Committed(d.name)

SmallestMultiplier(m, k, d) == m * k >= d /\ (m - 1) * k < d

\* C23: the multiplier for a deficit d > 0 and a recipe yielding k >= 1 is
\* the ceiling of d / k, the smallest m with m * k >= d (k = 4, d = 10 gives
\* 3), and each input of the recipe is pushed with count inputCount * m.
C23_CeilingMultiplier ==
    /\ [][IF DemandTaken
          THEN Len(gi'.encounters) > Len(gi.encounters) =>
                  LET e == gi'.encounters[Len(gi'.encounters)]
                      input == gi.recipes[e.name].input
                      pushed == SubSeq(gi'.itemsToGather, Len(gi.itemsToGather),
                                       Len(gi'.itemsToGather))
                  IN  /\ Len(pushed) = Len(input)
                      /\ \A i \in 1..Len(input) :
                            pushed[i] = [name |-> input[i].name,
                                         count |-> input[i].count * e.multiplier]
          ELSE TRUE]_vars
    /\ [](/\ Ceil(10, 4) = 3
          /\ IF gi.name = "none" THEN TRUE
             ELSE \A i \in 1..Len(gi.encounters) :
                     LET e == gi.encounters[i]
                     IN  /\ e.craftAmount > 0
                         /\ SmallestMultiplier(e.multiplier,
                                               gi.recipes[e.name].output.count, e.craftAmount))

\* a deficit of 3 met by a recipe yielding 2
C23_Witness ==
    IF gi.name = "none" THEN FALSE
    ELSE \E i \in 1..Len(gi.encounters) :
            /\ gi.encounters[i].craftAmount = 3
            /\ gi.recipes[gi.encounters[i].name].output.count = 2
            /\ gi.encounters[i].multiplier = 2

AddReturned == data.last.name = "_addRecipe"

\* the insertion would have broken one of the two rules
BreaksRule ==
    \/ ~\E t \in data.last.before.recipeTypes : t.typeID = data.last.arg.typeID
    \/ \E r \in data.last.before.recipes : r.output.name = data.last.arg.output.name

\* C24: after any sequence of _addRecipeType and _addRecipe calls no two
\* stored recipes have the same output name and the typeID of every stored
\* recipe is a registered type; an insertion that would break either rule
\* is rejected with its message and leaves the recipes as they were.
C24_RegistryRules ==
    /\ \A r1 \in data.recipes, r2 \in data.recipes : r1.output.name = r2.output.name => r1 = r2
    /\ \A r \in data.recipes : \E t \in data.recipeTypes : t.typeID = r.typeID
    /\ IF AddReturned
       THEN IF BreaksRule
            THEN data.recipes = data.last.before.recipes /\ Len(data.printed) = 1
            ELSE data.recipes = data.last.before.recipes \cup {data.last.arg}
                    /\ data.printed = <<>>
       ELSE TRUE

\* a recipe of a registered type is rejected for its output
C24_Witness ==
    IF AddReturned
    THEN /\ \E t \in data.recipeTypes : t.typeID = data.last.arg.typeID
         /\ data.last.arg \notin data.recipes
         /\ data.printed = <<"Recipes with outputs matching another are not allowed.">>
         /\ data.last.before.recipes # {}
    ELSE FALSE

\* C26: after Data.init NotInput is the union of Storage and Output,
\* whatever the recipe types and the settings name as inputs and outputs,
\* also where a chest is the output of one type and the input of another.
C26_NotInputIsUnion ==
    storagesByType.NotInput = storagesByType.Storage \cup storagesByType.Output

NamesReturned == pc = "returned" /\ op.name = "getItemNames"

Members(q) == {q[i] : i \in 1..Len(q)}

\* C25: getItemNames(seed) returns the seed names and the names present in
\* some handle's slot index, every name once, and no name that no handle
\* holds and the seed does not contain, also after a push has drained the
\* last slot of an item.
C25_UniqueNames ==
    NamesReturned =>
        /\ Members(op.result)
              = Members(op.insertedValues) \cup UNION {DOMAIN slots[h] : h \in Peripherals}
        /\ \A i \in 1..Len(op.result), j \in 1..Len(op.result) :
              op.result[i] = op.result[j] => i = j
        /\ \A n \in Members(op.result) \ Members(op.insertedValues) :
              \E h \in Peripherals : getItemCount(h, n) > 0

\* the craft operation is past its check of the gathered map
Checked ==
    IF gi.name = "none" THEN FALSE
    ELSE gi.phase \in {"missing", "prompt", "declined", "crafting", "failed", "done"}

\* every entry of the gathered map is at most the stock of its item
AllInStock == \A n \in DOMAIN gi.itemsGathered : gi.itemsGathered[n] <= gi.stock[n]

\* C27: the craft operation issues no item transfer unless every entry of
\* the gathered map is at most the total stock of its item and the user
\* has accepted the prompt; where an entry is above the stock it reports
\* the missing items and stops.
C27_NoTransferUnlessChecked ==
    Checked =>
        /\ gi.transfers > 0 => (AllInStock /\ gi.consent)
        /\ ~AllInStock => (gi.phase = "missing" /\ gi.missing # {} /\ gi.transfers = 0)
        /\ gi.phase \in {"missing", "prompt", "declined"} => gi.transfers = 0
        /\ gi.phase = "missing" => ~AllInStock

\* a plan of two recipes, agreed to, is being run
C27_Witness ==
    /\ Checked
    /\ gi.transfers > 1
    /\ Len(gi.newRecipeStack) > 1
    /\ \E n \in DOMAIN gi.itemsGathered : gi.itemsGathered[n] > 0

\* the push took all that the source slot held
Drained ==
    IF ~PushReturned THEN FALSE
    ELSE IF op.fromSlot \notin DOMAIN pre.list[op.src] THEN FALSE
    ELSE IF ~HasCount(pre.list[op.src][op.fromSlot]) THEN FALSE
    ELSE pre.list[op.src][op.fromSlot].count = op.totalMoved

\* C28: a source slot that a push drains to zero is absent from both
\* structures afterwards: getSlot(fromSlot) is empty, the slot counts as
\* free, and getNextAvailableSlot has it among the empty slots it yields.
C28_DrainedSlotAbsent ==
    Drained =>
        /\ getSlot(op.src, op.fromSlot) = EmptyMap
        /\ \A n \in DOMAIN slots[op.src] : op.fromSlot \notin DOMAIN slots[op.src][n]
        /\ getFreeSlotCount(op.src)
              = size(op.src) - Cardinality(DOMAIN pre.list[op.src]) + 1
        /\ op.fromSlot \in UndefinedSlots(op.src)

InQueuedPush == op.name = "pushItemsQueued"

\* C29: within one pushItems call every transfer asked of the peripheral
\* is over before the next destination slot is chosen and before the caches
\* are updated for it.
C29_TransfersAwaited ==
    (InQueuedPush /\ pc = "pushItemsQueued") =>
        /\ op.moveQueue = <<>>
        /\ InSync(pre, op.src) => InSync(Snapshot, op.src)
        /\ InSync(pre, op.dst) => InSync(Snapshot, op.dst)

\* C30: in the pushItems that queues its transfers the amount booked for a
\* destination slot is within the remaining limit and the room of the slot
\* and is the amount asked of the peripheral, and the total returned is
\* never above limit.
C30_BookedWithinLimit ==
    InQueuedPush =>
        /\ op.totalMoved <= op.limit
        /\ (pc = "returned" /\ InSync(pre, op.src) /\ InSync(pre, op.dst)) =>
              /\ ItemCountIn(slots[op.dst], op.item) - ItemCountIn(pre.slots[op.dst], op.item)
                    = CountIn(ext, op.dst, op.item) - CountIn(pre.ext, op.dst, op.item)
              /\ op.totalMoved
                    = CountIn(ext, op.dst, op.item) - CountIn(pre.ext, op.dst, op.item)

\* C31: where the transfer asked of the peripheral moves 0 units, the
\* caches of source and destination stay as they are for that step and
\* pushItems returns the total moved so far, trying no further slot.
C31_ZeroMoveStops ==
    [][(pc = "pushItems" /\ ext' = ext)
          => (list' = list /\ slots' = slots /\ pc' = "returned")]_vars

\* the coroutine of the push has gone on: a deeper frame, the frame left
\* for the one it delegates to, or one key more passed in its loop
GeneratorAdvanced ==
    \/ gen'.depth > gen.depth
    \/ /\ gen'.depth = gen.depth
       /\ \/ gen'.phase = "delegate" /\ gen.phase # "delegate"
          \/ Cardinality(gen'.visited) > Cardinality(gen.visited)

\* C32: pushItems terminates whatever the caches hold and whatever amounts
\* the peripheral reports, 0 included: every iteration that does not end
\* the call takes the slot coroutine further, and the coroutine never has
\* more frames than the destination has slots, plus one.
C32_PushTerminates ==
    /\ [][(pc = "pushItems" /\ pc' = "pushItems") => GeneratorAdvanced]_vars
    /\ []((InPush /\ pc # "error") =>
            /\ gen.depth <= size(op.dst) + 1
            /\ Cardinality(gen.visited) <= size(op.dst))

\* the call is over after the peripheral moved nothing into a slot that
\* the stale cache had as empty
C32_Witness ==
    /\ PushReturned
    /\ gen.depth >= 2
    /\ \E s \in DOMAIN list[op.dst] :
          IF HasCount(list[op.dst][s]) THEN list[op.dst][s].count = 0 ELSE FALSE

GatherCalled == gi.name = "gatherIngredients"

\* C33: with no recipe needing, through its inputs, its own product, and
\* every recipe yielding at least 1, gatherIngredients returns for every
\* request and every stock.
C33_GatherTerminates == (GatherCalled /\ Acyclic) ~> GatherReturned

\* the longest chain of recipes was gone through twice: the machine takes
\* gears and plates, gears take plates, plates are made of ingots
C33_Witness ==
    /\ GatherReturned
    /\ Acyclic
    /\ gi.steps = MaxGatherSteps
    /\ Len(gi.encounters) >= 4

\* the sets of items that need their own product in the registry
Cycles ==
    {S \in {{"machine", "plate"}, {"machine", "gear", "plate"}} :
        /\ S \subseteq DOMAIN gi.recipes
        /\ TakesProductOf("plate", "machine")
        /\ IF "gear" \in S THEN TakesProductOf("machine", "gear")
                           ELSE TakesProductOf("machine", "plate")}

\* every item of a cycle had a deficit the stock did not cover
Trapped ==
    IF GatherCalled
    THEN \E S \in Cycles : S \subseteq {gi.encounters[i].name : i \in 1..Len(gi.encounters)}
    ELSE FALSE

\* C34: once every item of a cycle of recipes had a deficit, the to-gather
\* stack is never empty again and gatherIngredients does not return.
C34_CycleNeverEnds ==
    Trapped => (gi.phase = "loop" /\ gi.itemsToGather # <<>>)

\* the loop went round a cycle for as long as it was followed, with some
\* of the machine in stock
C34_Witness ==
    /\ Trapped
    /\ gi.steps = MaxGatherSteps
    /\ gi.stock["machine"] > 0
    /\ Len(gi.encounters) >= 4

\* the deficits worked out at the encounters of recipe n, summed
RECURSIVE SumOfDeficits(_, _)
SumOfDeficits(encounters, n) ==
    IF encounters = <<>> THEN 0
    ELSE (IF Head(encounters).name = n THEN Head(encounters).craftAmount ELSE 0)
            + SumOfDeficits(Tail(encounters), n)

\* C35: for every entry of the plan, its multiplier times the output count
\* of its recipe is at least the sum of the deficits of its item at all
\* its encounters.
C35_PlanSuffices ==
    GatherReturned =>
        \A i \in 1..Len(gi.newRecipeStack) :
            LET n == gi.newRecipeStack[i]
            IN  gi.recipes[n].count * gi.recipes[n].output.count
                    >= SumOfDeficits(gi.encounters, n)

\* C36: gatherIngredients leaves the recipes of the registry as they were
\* loaded: no recipe has a count after the call.
C36_RegistryUntouched ==
    GatherReturned =>
        \A n \in DOMAIN gi.recipes : "count" \notin DOMAIN gi.recipes[n]

\* a transfer of the craft operation moved less than was asked
ShortfallSeen == IF Checked THEN gi.short ELSE FALSE

\* C37: once a transfer of an ingredient moved less than asked, the craft
\* operation has stopped: no transfer follows, of a later plan entry or of
\* the product, and the operation does not report success.
C37_ShortfallStops ==
    /\ [](ShortfallSeen => gi.phase = "failed")
    /\ [][ShortfallSeen => gi' = gi]_vars

\* the shortfall came after a transfer that went through, with a recipe of
\* the plan still to come
C37_Witness ==
    /\ ShortfallSeen
    /\ gi.transfers > 1
    /\ Len(gi.plan) > 1

RolesReturned == pc = "returned" /\ op.name = "getStoragesByType"

\* C38: getStoragesByType(NotInput) returns Storage union Output and leaves
\* the Storage, Output and Input sets as they were before the call.
C38_NotInputIsPureQuery ==
    (RolesReturned /\ op.sType = "NotInput") =>
        /\ op.result = op.before.Storage \cup op.before.Output
        /\ storagesByType.Storage = op.before.Storage
        /\ storagesByType.Output = op.before.Output
        /\ storagesByType.Input = op.before.Input

EvaluatorReturned == pc = "returned" /\ op.name = "expressionEvaluator"

\* an integer, an operator, an integer, ...: the expressions C39 is about
WellFormed(tokens) ==
    /\ Len(tokens) % 2 = 1
    /\ \A i \in 1..Len(tokens) : IsNumber(tokens[i]) <=> i % 2 = 1

Greatest(S) == CHOOSE x \in S : \A y \in S : y <= x

\* the last operator of the lowest precedence present: the one applied
\* last where * and / bind tighter and equal precedence associates left
LastApplied(tokens) ==
    LET ops == {i \in 1..Len(tokens) : ~IsNumber(tokens[i])}
        low == {i \in ops : Precedence(tokens[i]) = 0}
    IN  IF low # {} THEN Greatest(low) ELSE Greatest(ops)

\* the value of a well-formed expression by the usual rules
RECURSIVE ValueOf(_)
ValueOf(tokens) ==
    IF Len(tokens) = 1 THEN tokens[1]
    ELSE LET k == LastApplied(tokens)
         IN  Apply(tokens[k], ValueOf(SubSeq(tokens, 1, k - 1)),
                   ValueOf(SubSeq(tokens, k + 1, Len(tokens))))

SameNumber(x, y) ==
    IF "undefined" \in DOMAIN x \/ "undefined" \in DOMAIN y THEN FALSE
    ELSE Finite(x) /\ Finite(y) /\ x.n * y.d = y.n * x.d

\* C39: on an integer expression without brackets expressionEvaluator
\* returns the value by the usual rules: * and / before + and -, equal
\* precedence from the left; "1+2*3" gives 7.
C39_PrecedenceHonoured ==
    (EvaluatorReturned /\ WellFormed(op.tokens)) =>
        SameNumber(op.result, ValueOf(op.tokens))

NamespaceReturned == pc = "returned" /\ op.name = "namespaceValidator"

\* value is two non-empty segments with one ":" between them
TwoSegments(value) ==
    \E k \in 2..(Len(value) - 1) :
        \A i \in 1..Len(value) : value[i] = ":" <=> i = k

SeparatorAt(value) == CHOOSE k \in 1..Len(value) : value[k] = ":"

\* C40: namespaceValidator accepts exactly the strings of two non-empty
\* segments separated by a single ":", and splitString gives these two
\* segments for every string accepted.
C40_TwoSegmentsExactly ==
    NamespaceReturned =>
        /\ op.result <=> TwoSegments(op.value)
        /\ op.result =>
              op.parts = <<SubSeq(op.value, 1, SeparatorAt(op.value) - 1),
                           SubSeq(op.value, SeparatorAt(op.value) + 1, Len(op.value))>>

====
